---- MODULE Spec2Model ----
(***************************************************************************)
(* A model of the aegis-ai clinical agent: the six-node workflow graph     *)
(* (agent/graph.py, agent/nodes.py), the FHIR record store (fhir.py), the  *)
(* patient-data tools (mcp_server.py) and the guideline retriever          *)
(* (rag/retriever.py).                                                     *)
(*                                                                         *)
(* Python values are represented as follows.  A str is a sequence of       *)
(* tokens (characters where the code looks inside the string), "" being    *)
(* <<>>; a list is a sequence; a dict is a function whose domain is the    *)
(* set of keys it holds, so that an absent key differs from a key holding  *)
(* an empty value.  A similarity score is an integer number of             *)
(* thousandths.                                                            *)
(***************************************************************************)
EXTENDS Integers, Sequences, FiniteSets, TLC

----------------------------------------------------------------------------
(* Python built-ins.  Texts are written without their diacritics. *)

\* dict.get(key, default)
Get(d, key, default) == IF key \in DOMAIN d THEN d[key] ELSE default

\* d[key] = value on a dict
Put(d, key, value) ==
    [k \in DOMAIN d \cup {key} |-> IF k = key THEN value ELSE d[k]]

Range(s) == {s[i] : i \in DOMAIN s}

\* sep.join(parts) for strings: parts is a sequence of strings
RECURSIVE Join(_, _)
Join(parts, sep) ==
    IF parts = <<>> THEN <<>>
    ELSE IF Len(parts) = 1 THEN parts[1]
    ELSE parts[1] \o sep \o Join(Tail(parts), sep)

Whitespace == {" ", "\n"}

UpperToLower == [A |-> "a", B |-> "b", D |-> "d", J |-> "j", L |-> "l"]

\* str.lower(), character by character
Lower(s) == [i \in DOMAIN s |-> Get(UpperToLower, s[i], s[i])]

\* str.strip()
RECURSIVE Strip(_)
Strip(s) ==
    IF s = <<>> THEN s
    ELSE IF s[1] \in Whitespace THEN Strip(Tail(s))
    ELSE IF s[Len(s)] \in Whitespace THEN Strip(SubSeq(s, 1, Len(s) - 1))
    ELSE s

\* str.split(): the maximal runs of non-whitespace characters, in order
RECURSIVE SplitFrom(_, _, _)
SplitFrom(s, i, cur) ==
    IF i > Len(s) THEN (IF cur = <<>> THEN <<>> ELSE <<cur>>)
    ELSE IF s[i] \in Whitespace
         THEN (IF cur = <<>> THEN <<>> ELSE <<cur>>) \o SplitFrom(s, i + 1, <<>>)
         ELSE SplitFrom(s, i + 1, Append(cur, s[i]))

Split(s) == SplitFrom(s, 1, <<>>)

\* part in text, for strings
Contains(text, part) ==
    \E i \in 0..(Len(text) - Len(part)) : SubSeq(text, i + 1, i + Len(part)) = part

\* None, True and False are reserved one-token values, so that they can be
\* compared with strings and lists
None == <<"<None>">>

True == <<"<True>">>

False == <<"<False>">>

\* bool(v) for None, a bool or a str
Truthy(v) == v \notin {None, False, <<>>}

\* bool(v) for a list or a dict
NonEmpty(v) == DOMAIN v # {}

----------------------------------------------------------------------------
(* fhir.py: the record store *)

\* An insertion-ordered dict (self._patients): a sequence of <<key, value>>
\* pairs with distinct keys.  Assigning to a key that is present keeps its place.
Keys(od) == [i \in DOMAIN od |-> od[i][1]]

HasKey(od, key) == \E i \in DOMAIN od : od[i][1] = key

Lookup(od, key) == od[CHOOSE i \in DOMAIN od : od[i][1] = key][2]

OrderedPut(od, key, value) ==
    IF HasKey(od, key)
    THEN [i \in DOMAIN od |-> IF od[i][1] = key THEN <<key, value>> ELSE od[i]]
    ELSE Append(od, <<key, value>>)

\* FHIRStore.__init__
FHIRStore == [_patients |-> <<>>, _patient_index |-> <<>>, _ref_to_patient_id |-> <<>>]

\* A first pass that keeps the references of the current patient only
RegisterPatientFresh(store, entry) ==
    LET resource == Get(entry, "resource", <<>>) IN
    IF Get(resource, "resourceType", None) # <<"Patient">>
    THEN [store |-> store, raised |-> FALSE]
    ELSE IF "id" \notin DOMAIN resource
    THEN [store |-> store, raised |-> TRUE]
    ELSE [store |->
             [_patients |-> OrderedPut(store._patients, resource.id, resource),
              _patient_index |->
                 IF resource.id \in DOMAIN store._patient_index
                 THEN store._patient_index
                 ELSE Put(store._patient_index, resource.id, <<>>),
              _ref_to_patient_id |->
                 Put(<<>>, <<"Patient/">> \o resource.id, resource.id)],
          raised |-> FALSE]

\* First pass of load_bundle over one entry.  resource["id"] raises KeyError for
\* a Patient resource without an id.
RegisterPatient(store, entry) ==
    LET resource == Get(entry, "resource", <<>>) IN
    IF Get(resource, "resourceType", None) # <<"Patient">>
    THEN [store |-> store, raised |-> FALSE]
    ELSE IF "id" \notin DOMAIN resource
    THEN [store |-> store, raised |-> TRUE]
    ELSE LET patient_id == resource.id
             full_url == Get(entry, "fullUrl", <<>>)
             refs1 == IF Truthy(full_url)
                      THEN Put(store._ref_to_patient_id, full_url, patient_id)
                      ELSE store._ref_to_patient_id
         IN [store |->
                [_patients |-> OrderedPut(store._patients, patient_id, resource),
                 _patient_index |->
                    IF patient_id \in DOMAIN store._patient_index
                    THEN store._patient_index
                    ELSE Put(store._patient_index, patient_id, <<>>),
                 _ref_to_patient_id |->
                    Put(refs1, <<"Patient/">> \o patient_id, patient_id)],
             raised |-> FALSE]

RECURSIVE FirstPass(_, _)
FirstPass(store, entries) ==
    IF entries = <<>> THEN [store |-> store, raised |-> FALSE]
    ELSE LET r == RegisterPatient(store, Head(entries)) IN
         IF r.raised THEN r ELSE FirstPass(r.store, Tail(entries))

\* FHIRStore._resolve_patient_id
_resolve_patient_id(store, resource) ==
    LET ref == Get(Get(resource, "subject", <<>>), "reference", <<>>) IN
    IF ~Truthy(ref) THEN None
    ELSE IF ref \in DOMAIN store._ref_to_patient_id THEN store._ref_to_patient_id[ref]
    ELSE IF Head(ref) = "Patient/" THEN Tail(ref)
    ELSE None

\* A second pass that does not ask whether the patient is known
IndexResourceUnchecked(store, entry) ==
    LET resource == Get(entry, "resource", <<>>)
        res_type == Get(resource, "resourceType", <<>>)
        patient_id == _resolve_patient_id(store, resource)
    IN
    IF res_type = <<"Patient">> THEN store
    ELSE IF Truthy(patient_id)
    THEN LET by_type == Get(store._patient_index, patient_id, <<>>) IN
         [store EXCEPT !._patient_index =
            Put(store._patient_index, patient_id,
                Put(by_type, res_type, Append(Get(by_type, res_type, <<>>), resource)))]
    ELSE store

\* Second pass of load_bundle over one entry
IndexResource(store, entry) ==
    LET resource == Get(entry, "resource", <<>>)
        res_type == Get(resource, "resourceType", <<>>)
        patient_id == _resolve_patient_id(store, resource)
    IN
    IF res_type = <<"Patient">> THEN store
    ELSE IF Truthy(patient_id) /\ patient_id \in DOMAIN store._patient_index
    THEN LET by_type == store._patient_index[patient_id] IN
         [store EXCEPT !._patient_index[patient_id] =
            Put(by_type, res_type, Append(Get(by_type, res_type, <<>>), resource))]
    ELSE store

RECURSIVE SecondPass(_, _)
SecondPass(store, entries) ==
    IF entries = <<>> THEN store
    ELSE SecondPass(IndexResource(store, Head(entries)), Tail(entries))

\* A load_bundle that indexes the resources before it registers the patients
LoadIndexingFirst(store, bundle) ==
    IF Get(bundle, "resourceType", None) # <<"Bundle">>
    THEN [store |-> store, raised |-> TRUE]
    ELSE FirstPass(SecondPass(store, Get(bundle, "entry", <<>>)),
                   Get(bundle, "entry", <<>>))

\* A load_bundle that does not look at the type of the document
LoadWithoutTypeCheck(store, bundle) ==
    LET entries == Get(bundle, "entry", <<>>)
        first == FirstPass(store, entries)
    IN IF first.raised THEN first
       ELSE [store |-> SecondPass(first.store, entries), raised |-> FALSE]

\* FHIRStore.load_bundle on the parsed content of one file
load_bundle(store, bundle) ==
    IF Get(bundle, "resourceType", None) # <<"Bundle">>
    THEN [store |-> store, raised |-> TRUE]
    ELSE LET entries == Get(bundle, "entry", <<>>)
             first == FirstPass(store, entries)
         IN IF first.raised THEN first
            ELSE [store |-> SecondPass(first.store, entries), raised |-> FALSE]

\* FHIRStore.load_directory: the files of the directory, given in sorted order
\* of their names; the first failing file ends the load and keeps what was loaded
RECURSIVE load_directory(_, _)
load_directory(store, files) ==
    IF files = <<>> THEN [store |-> store, raised |-> FALSE]
    ELSE LET r == load_bundle(store, Head(files)) IN
         IF r.raised THEN r ELSE load_directory(r.store, Tail(files))

\* The code points of the characters of the file names; an extension is one
\* token and stands at its first character
CodePoint ==
    ("-" :> 45) @@ ("." :> 46) @@ ("0" :> 48) @@ ("1" :> 49) @@ ("B" :> 66)
    @@ ("e" :> 101) @@ ("json" :> 106) @@ ("n" :> 110) @@ ("p" :> 112)
    @@ ("txt" :> 116) @@ ("x" :> 120)

\* a < b for two file names of one directory, as sorted() compares them
RECURSIVE PathLess(_, _)
PathLess(a, b) ==
    IF b = <<>> THEN FALSE
    ELSE IF a = <<>> THEN TRUE
    ELSE IF Head(a) = Head(b) THEN PathLess(Tail(a), Tail(b))
    ELSE CodePoint[Head(a)] < CodePoint[Head(b)]

\* directory.glob("*.json"): the files of the listing whose name ends in .json,
\* in the order the file system lists them
glob_json(listing) ==
    SelectSeq(listing, LAMBDA f : Len(f.name) >= 2 /\ f.name[Len(f.name)] = "json"
                                  /\ f.name[Len(f.name) - 1] = ".")

\* The paths as the file system lists them
Unsorted(paths) == paths

\* sorted(paths)
RECURSIVE sorted_paths(_)
sorted_paths(paths) ==
    IF paths = <<>> THEN <<>>
    ELSE LET before == sorted_paths(SubSeq(paths, 1, Len(paths) - 1))
             f == paths[Len(paths)]
             n == Cardinality({i \in DOMAIN before : ~PathLess(f.name, before[i].name)})
         IN SubSeq(before, 1, n) \o <<f>> \o SubSeq(before, n + 1, Len(before))

\* The files load_directory hands to load_bundle, in its order: the sorted
\* *.json files that do not lie in a directory named metadata
PathsToLoad(listing) ==
    SelectSeq(sorted_paths(glob_json(listing)), LAMBDA f : f.parent # "metadata")

\* The load_bundle calls load_directory makes on store for these files, each
\* with its outcome; the first failing call is the last
RECURSIVE LoadCalls(_, _)
LoadCalls(store, files) ==
    IF files = <<>> THEN <<>>
    ELSE LET r == load_bundle(store, Head(files).doc)
             call == [name |-> Head(files).name, doc |-> Head(files).doc,
                      raised |-> r.raised]
         IN IF r.raised THEN <<call>> ELSE <<call>> \o LoadCalls(r.store, Tail(files))

\* load_directory on a listing of the directory
load_listing(store, listing) ==
    load_directory(store, [i \in DOMAIN PathsToLoad(listing) |-> PathsToLoad(listing)[i].doc])

Desconhecido == <<"D", "e", "s", "c", "o", "n", "h", "e", "c", "i", "d", "o">>

\* FHIRStore._format_patient_name
_format_patient_name(patient) ==
    LET names == Get(patient, "name", <<>>) IN
    IF ~NonEmpty(names) THEN Desconhecido
    ELSE LET name == names[1]
             given == Join(Get(name, "given", <<>>), <<" ">>)
             family == Get(name, "family", <<>>)
             full == Strip(given \o <<" ">> \o family)
         IN IF Truthy(full) THEN full ELSE Desconhecido

\* FHIRStore.list_patients
list_patients(store) ==
    [i \in DOMAIN store._patients |->
        [id |-> store._patients[i][1],
         name |-> _format_patient_name(store._patients[i][2])]]

\* FHIRStore.get_patient; the None of a missing patient is the empty function,
\* which no Patient resource is
get_patient(store, patient_id) ==
    IF HasKey(store._patients, patient_id) THEN Lookup(store._patients, patient_id)
    ELSE <<>>

\* FHIRStore.get_resources
get_resources(store, patient_id, resource_type) ==
    Get(Get(store._patient_index, patient_id, <<>>), resource_type, <<>>)

get_conditions(store, patient_id) == get_resources(store, patient_id, <<"Condition">>)

get_medications(store, patient_id) ==
    get_resources(store, patient_id, <<"MedicationRequest">>)

get_observations(store, patient_id) == get_resources(store, patient_id, <<"Observation">>)

----------------------------------------------------------------------------
(* mcp_server.py: the patient-data tools.  Each tool is given the store and
   returns its text; the lazy load in front of it is _load_store. *)

\* _format_patient; the age appended to the birth date depends on the day the
\* tool runs and is the token "<age>"
_format_patient(patient) ==
    LET name == _format_patient_name(patient)
        g == Get(patient, "gender", <<>>)
        gender == IF g = <<"male">> THEN <<"Masculino">>
                  ELSE IF g = <<"female">> THEN <<"Feminino">> ELSE g
        birth == Get(patient, "birthDate", <<>>)
        age == IF Truthy(birth) THEN <<" (", "<age>", " anos)">> ELSE <<>>
    IN Join(<< <<"Nome: ">> \o name, <<"Sexo: ">> \o gender,
               <<"Nascimento: ">> \o birth \o age >>, <<"\n">>)

\* The text of a coded resource: code.text, or "Desconhecido" (no resource of
\* the model carries codings)
CodeText(resource, key) ==
    LET text == Get(Get(resource, key, <<>>), "text", <<>>) IN
    IF Truthy(text) THEN text ELSE <<"Desconhecido">>

\* _format_condition
_format_condition(condition) ==
    LET onset == Get(condition, "onsetDateTime", <<>>) IN
    Join(<<CodeText(condition, "code")>>
         \o (IF Truthy(onset) THEN << <<"desde ">> \o onset >> ELSE <<>>), <<" -- ">>)

\* _format_medication
_format_medication(med) ==
    LET status == Get(med, "status", <<>>) IN
    Join(<<CodeText(med, "medicationCodeableConcept")>>
         \o (IF Truthy(status) THEN << <<"(status: ">> \o status \o <<")">> >> ELSE <<>>),
         <<" -- ">>)

\* _format_observation
_format_observation(obs) ==
    IF "valueQuantity" \in DOMAIN obs
    THEN CodeText(obs, "code") \o <<": ">> \o obs.valueQuantity.value
         \o <<" ">> \o Get(obs.valueQuantity, "unit", <<>>)
    ELSE CodeText(obs, "code")

\* The "- <line>" lines of a section
Lines(lines) == Join([i \in DOMAIN lines |-> <<"- ">> \o lines[i]], <<"\n">>)

\* consultar_paciente, after _load_store
consultar_paciente(store, patient_id) ==
    LET patient == get_patient(store, patient_id) IN
    IF ~NonEmpty(patient) THEN <<"Paciente nao encontrado: ">> \o patient_id
    ELSE _format_patient(patient)

\* consultar_condicoes, after _load_store
consultar_condicoes(store, patient_id) ==
    LET conditions == get_conditions(store, patient_id) IN
    IF ~NonEmpty(conditions)
    THEN <<"Nenhuma condicao registrada para o paciente ">> \o patient_id \o <<".">>
    ELSE <<"Condicoes clinicas (", ToString(Len(conditions)), "):\n">>
         \o Lines([i \in DOMAIN conditions |-> _format_condition(conditions[i])])

\* consultar_medicamentos, after _load_store
consultar_medicamentos(store, patient_id) ==
    LET medications == get_medications(store, patient_id) IN
    IF ~NonEmpty(medications)
    THEN <<"Nenhum medicamento registrado para o paciente ">> \o patient_id \o <<".">>
    ELSE <<"Medicamentos (", ToString(Len(medications)), "):\n">>
         \o Lines([i \in DOMAIN medications |-> _format_medication(medications[i])])

\* consultar_sinais_vitais, after _load_store
consultar_sinais_vitais(store, patient_id) ==
    LET observations == get_observations(store, patient_id) IN
    IF ~NonEmpty(observations)
    THEN <<"Nenhum sinal vital registrado para o paciente ">> \o patient_id \o <<".">>
    ELSE <<"Sinais vitais (", ToString(Len(observations)), "):\n">>
         \o Lines([i \in DOMAIN observations |-> _format_observation(observations[i])])

\* DRUG_INTERACTIONS: each pair of drug names with its description
DRUG_INTERACTIONS ==
    {<<{<<"l", "o", "s", "a", "r", "t", "a", "n", "a">>, <<"e", "s", "p", "i", "r", "o", "n", "o", "l", "a", "c", "t", "o", "n", "a">>},
        <<"Risco de hipercalemia. Monitorar potassio serico regularmente.">>>>,
     <<{<<"l", "o", "s", "a", "r", "t", "a", "n", "a">>, <<"e", "n", "a", "l", "a", "p", "r", "i", "l">>},
        <<"Duplo bloqueio do SRAA. Risco aumentado de hipotensao, hipercalemia e insuficiencia renal. Evitar associacao.">>>>,
     <<{<<"m", "e", "t", "f", "o", "r", "m", "i", "n", "a">>, <<"c", "o", "n", "t", "r", "a", "s", "t", "e", " ", "i", "o", "d", "a", "d", "o">>},
        <<"Risco de acidose latica. Suspender metformina 48h antes e apos procedimentos com contraste iodado.">>>>,
     <<{<<"m", "e", "t", "f", "o", "r", "m", "i", "n", "a">>, <<"a", "l", "c", "o", "o", "l">>},
        <<"Risco aumentado de acidose latica. Orientar paciente a evitar consumo excessivo de alcool.">>>>,
     <<{<<"l", "o", "s", "a", "r", "t", "a", "n", "a">>, <<"i", "b", "u", "p", "r", "o", "f", "e", "n", "o">>},
        <<"AINEs reduzem o efeito anti-hipertensivo e aumentam risco de lesao renal. Evitar uso prolongado.">>>>,
     <<{<<"l", "o", "s", "a", "r", "t", "a", "n", "a">>, <<"d", "i", "c", "l", "o", "f", "e", "n", "a", "c", "o">>},
        <<"AINEs reduzem o efeito anti-hipertensivo e aumentam risco de lesao renal. Evitar uso prolongado.">>>>,
     <<{<<"h", "i", "d", "r", "o", "c", "l", "o", "r", "o", "t", "i", "a", "z", "i", "d", "a">>, <<"l", "i", "t", "i", "o">>},
        <<"Tiazidicos reduzem a excrecao renal de litio. Risco de toxicidade por litio. Monitorar niveis sericos.">>>>,
     <<{<<"h", "i", "d", "r", "o", "c", "l", "o", "r", "o", "t", "i", "a", "z", "i", "d", "a">>, <<"d", "i", "g", "o", "x", "i", "n", "a">>},
        <<"Hipocalemia induzida por tiazidicos potencializa toxicidade digitalica. Monitorar potassio e digoxina.">>>>}

\* A normalisation that keeps the letter case
NormalizeWithoutLower(name) == Strip(name)

\* _normalize_drug_name
_normalize_drug_name(name) == Lower(Strip(name))

\* DRUG_INTERACTIONS.get(pair)
InteractionOf(pair) ==
    IF \E row \in DRUG_INTERACTIONS : row[1] = pair
    THEN (CHOOSE row \in DRUG_INTERACTIONS : row[1] = pair)[2]
    ELSE None

InteractionFound == "Interacao encontrada entre "

NoKnownInteraction == "Nenhuma interacao conhecida entre "

InteractionNote ==
    "Nota: esta verificacao cobre apenas interacoes comuns pre-cadastradas. Consulte fontes farmacologicas completas para analise definitiva."

\* verificar_interacao_medicamentosa
verificar_interacao_medicamentosa(medicamento_a, medicamento_b) ==
    LET a == _normalize_drug_name(medicamento_a)
        b == _normalize_drug_name(medicamento_b)
        interaction == InteractionOf({a, b})
    IN IF Truthy(interaction)
       THEN <<InteractionFound>> \o medicamento_a \o <<" e ">> \o medicamento_b
            \o <<":\n">> \o interaction
       ELSE <<NoKnownInteraction>> \o medicamento_a \o <<" e ">> \o medicamento_b
            \o <<".\n", InteractionNote>>

----------------------------------------------------------------------------
(* rag/retriever.py *)

Min(a, b) == IF a < b THEN a ELSE b

\* retrieve(query, top_k=...): ranking is what the vector index holds for the
\* query above the score threshold, by descending score; the search is cut to
\* top_k points
retrieve(ranking, top_k) == SubSeq(ranking, 1, Min(top_k, Len(ranking)))

\* f"{score:.2f}" of a score given in thousandths
FormatScore(score) ==
    LET h == (score + 5) \div 10 IN
    ToString(h \div 100) \o "." \o ToString((h % 100) \div 10) \o ToString(h % 10)

NoRelevantGuideline == <<"Nenhuma diretriz relevante encontrada.">>

ContextSeparator == <<"\n\n---\n\n">>

\* format_context
format_context(results) ==
    IF ~NonEmpty(results) THEN NoRelevantGuideline
    ELSE Join([i \in DOMAIN results |->
                 <<"[Fonte: ">> \o results[i].source \o <<" | Relevancia: ",
                 FormatScore(results[i].score), "]\n">> \o results[i].text],
              ContextSeparator)

----------------------------------------------------------------------------
(* rag/ingest.py: load, chunk, embed, store.  A guideline file is its name,
   its suffix and the pieces the text splitter cuts its text into; the client
   is the collections of the vector database, each with its vector size, its
   distance and its points by id. *)

SupportedSuffixes == {<<".", "t", "x", "t">>, <<".", "m", "d">>, <<".", "p", "d", "f">>}

\* load_all_documents: the supported files of the directory, which is given
\* in the order of sorted(directory.iterdir())
load_all_documents(files) ==
    LET supported == SelectSeq(files, LAMBDA f : Lower(f.suffix) \in SupportedSuffixes) IN
    [i \in DOMAIN supported |->
        [source |-> supported[i].name, text |-> supported[i].splits]]

\* chunk_text: one chunk per piece of the splitter, numbered from 0
chunk_text(text, source) ==
    [i \in DOMAIN text |-> [text |-> text[i], source |-> source, chunk_index |-> i - 1]]

\* chunk_documents
RECURSIVE chunk_documents(_)
chunk_documents(docs) ==
    IF docs = <<>> THEN <<>>
    ELSE chunk_text(Head(docs).text, Head(docs).source) \o chunk_documents(Tail(docs))

\* EMBEDDING_DIM
EMBEDDING_DIM == 768

\* The vector the embedding service gives for a text
Embedding(text) == [of |-> text, size |-> EMBEDDING_DIM]

\* embed_chunks: embed_text on the chunks in their order; the call for chunk
\* fail_at raises (0: none does) and ends the loop
embed_chunks(chunks, fail_at) ==
    LET n == IF fail_at \in DOMAIN chunks THEN fail_at ELSE Len(chunks) IN
    [chunks |-> [i \in DOMAIN chunks |->
                    [text |-> chunks[i].text, source |-> chunks[i].source,
                     chunk_index |-> chunks[i].chunk_index,
                     embedding |-> Embedding(chunks[i].text)]],
     calls |-> [i \in 1..n |-> [text |-> chunks[i].text, raised |-> i = fail_at]],
     raised |-> fail_at \in DOMAIN chunks]

\* settings.qdrant_collection
QdrantCollection == "clinical_guidelines"

\* ensure_collection: the collections afterwards and the client calls made
ensure_collection(collections, name) ==
    IF name \in DOMAIN collections
    THEN [collections |-> collections,
          calls |-> << <<"collection_exists", name>> >>]
    ELSE [collections |->
             Put(collections, name,
                 [size |-> EMBEDDING_DIM, distance |-> "COSINE", points |-> <<>>]),
          calls |-> << <<"collection_exists", name>>,
                       <<"create_collection", name, EMBEDDING_DIM, "COSINE">> >>]

\* Points whose ids are counted from 1
PointsFromOne(chunks) ==
    [i \in DOMAIN chunks |->
        [id |-> i, vector |-> chunks[i].embedding,
         payload |-> [text |-> chunks[i].text, source |-> chunks[i].source,
                      chunk_index |-> chunks[i].chunk_index]]]

\* The points store_chunks builds: id i for the i-th chunk, counted from 0
Points(chunks) ==
    [i \in DOMAIN chunks |->
        [id |-> i - 1, vector |-> chunks[i].embedding,
         payload |-> [text |-> chunks[i].text, source |-> chunks[i].source,
                      chunk_index |-> chunks[i].chunk_index]]]

\* client.upsert: each point replaces the point of its id; the database
\* rejects vectors that do not have the size of the collection
RECURSIVE Upsert(_, _)
Upsert(points_by_id, points) ==
    IF points = <<>> THEN points_by_id
    ELSE Upsert(Put(points_by_id, Head(points).id, Head(points)), Tail(points))

\* store_chunks
store_chunks(collections, chunks) ==
    LET ensured == ensure_collection(collections, QdrantCollection)
        points == Points(chunks)
        calls == Append(ensured.calls, <<"upsert", QdrantCollection, points>>)
        target == ensured.collections[QdrantCollection]
    IN IF \E i \in DOMAIN points : points[i].vector.size # target.size
       THEN [collections |-> ensured.collections, calls |-> calls, raised |-> TRUE,
             returned |-> 0]
       ELSE [collections |->
                Put(ensured.collections, QdrantCollection,
                    [target EXCEPT !.points = Upsert(target.points, points)]),
             calls |-> calls, raised |-> FALSE, returned |-> Len(points)]

\* An ingestion that stores every chunk as soon as it is embedded
IngestChunkByChunk(files, collections, fail_at) ==
    LET chunks == chunk_documents(load_all_documents(files))
        n == IF fail_at \in DOMAIN chunks THEN fail_at - 1 ELSE Len(chunks)
        embedded == embed_chunks(chunks, fail_at)
        stored == store_chunks(collections, SubSeq(embedded.chunks, 1, n))
    IN [collections |-> stored.collections, embed_calls |-> embedded.calls,
        qdrant_calls |-> stored.calls,
        raised |-> embedded.raised \/ stored.raised,
        error |-> IF embedded.raised THEN "embed" ELSE IF stored.raised THEN "upsert" ELSE "",
        returned |-> stored.returned]

\* ingest_guidelines on the files of the guideline directory and the
\* collections of the client
ingest_guidelines(files, collections, fail_at) ==
    LET chunks == chunk_documents(load_all_documents(files))
        embedded == embed_chunks(chunks, fail_at)
    IN IF embedded.raised
       THEN [collections |-> collections, embed_calls |-> embedded.calls,
             qdrant_calls |-> <<>>, raised |-> TRUE, error |-> "embed", returned |-> 0]
       ELSE LET stored == store_chunks(collections, embedded.chunks) IN
            [collections |-> stored.collections, embed_calls |-> embedded.calls,
             qdrant_calls |-> stored.calls, raised |-> stored.raised,
             error |-> IF stored.raised THEN "upsert" ELSE "",
             returned |-> stored.returned]

----------------------------------------------------------------------------
(* llm.py: generate, generate_json and _extract_json.  A text of the language
   model is a sequence of tokens: a fence of three backticks, the word json,
   white space, the two braces, a key with its colon, and the number 1.  A
   parsed JSON value is written as its tokens without white space. *)

\* The fence of a code block, three backtick characters
Fence == "<fence>"

IsSpace(token) == token = " "

\* The characters of a token
Chars(token) ==
    CASE token = Fence -> <<"<backtick>", "<backtick>", "<backtick>">>
      [] token = "json" -> <<"j", "s", "o", "n">>
      [] token = "k:" -> <<"k", ":">>
      [] OTHER -> <<token>>

RECURSIVE Flatten(_)
Flatten(text) == IF text = <<>> THEN <<>> ELSE Chars(Head(text)) \o Flatten(Tail(text))

\* The grammar of json.loads: a value is the number or an object, an object
\* is a pair of braces around nothing or around one key and its value
RECURSIVE IsJsonValue(_)
IsJsonValue(tokens) ==
    \/ tokens = <<"1">>
    \/ /\ Len(tokens) >= 2
       /\ tokens[1] = "{" /\ tokens[Len(tokens)] = "}"
       /\ \/ Len(tokens) = 2
          \/ /\ tokens[2] = "k:"
             /\ IsJsonValue(SubSeq(tokens, 3, Len(tokens) - 1))

\* json.loads(text); raised stands for json.JSONDecodeError
json_loads(text) ==
    LET tokens == SelectSeq(text, LAMBDA token : ~IsSpace(token)) IN
    IF IsJsonValue(tokens) THEN [raised |-> FALSE, value |-> tokens]
    ELSE [raised |-> TRUE, value |-> <<>>]

\* The position after the white space that starts at position i
RECURSIVE SkipSpace(_, _)
SkipSpace(text, i) ==
    IF i <= Len(text) /\ IsSpace(text[i]) THEN SkipSpace(text, i + 1) ELSE i

\* The ends e of group 1, (\{.*?\}), when it starts at position s: a closing
\* brace followed by white space and a fence
GroupEnds(text, s) ==
    {e \in (s + 1)..Len(text) :
        /\ text[e] = "}"
        /\ SkipSpace(text, e + 1) <= Len(text)
        /\ text[SkipSpace(text, e + 1)] = Fence}

\* The start of group 1 when the match of the fenced pattern starts at
\* position i: a fence, json or not, white space, an opening brace; 0 when
\* there is no match at i
GroupStart(text, i) ==
    IF text[i] # Fence THEN 0
    ELSE LET j == IF i + 1 <= Len(text) /\ text[i + 1] = "json" THEN i + 2 ELSE i + 1
             s == SkipSpace(text, j)
         IN IF s <= Len(text) /\ text[s] = "{" /\ GroupEnds(text, s) # {} THEN s
            ELSE 0

\* re.search of the fenced pattern, fence (?:json)?\s*(\{.*?\})\s* fence, with
\* re.DOTALL: group 1 of the leftmost match, the group as short as it can be
FencedMatch(text) ==
    LET starts == {i \in DOMAIN text : GroupStart(text, i) # 0} IN
    IF starts = {} THEN [found |-> FALSE, group |-> <<>>]
    ELSE LET i == CHOOSE i \in starts : \A j \in starts : i <= j
             s == GroupStart(text, i)
             e == CHOOSE e \in GroupEnds(text, s) : \A f \in GroupEnds(text, s) : e <= f
         IN [found |-> TRUE, group |-> SubSeq(text, s, e)]

\* re.search(r"\{.*\}", text, re.DOTALL): from the first opening brace to the
\* last closing brace after it
RawMatch(text) ==
    LET opens == {i \in DOMAIN text : text[i] = "{"} IN
    IF opens = {} THEN [found |-> FALSE, group |-> <<>>]
    ELSE LET s == CHOOSE i \in opens : \A j \in opens : i <= j
             closes == {i \in (s + 1)..Len(text) : text[i] = "}"}
         IN IF closes = {} THEN [found |-> FALSE, group |-> <<>>]
            ELSE [found |-> TRUE,
                  group |-> SubSeq(text, s, CHOOSE i \in closes : \A j \in closes : j <= i)]

\* The length of the prefix of the text in the message of the ValueError
PrefixLen == 200

Outcome(value) == [raised |-> FALSE, error |-> "", value |-> value]

Raise(error, message) == [raised |-> TRUE, error |-> error, value |-> message]

\* _extract_json
_extract_json(text) ==
    IF FencedMatch(text).found
    THEN IF json_loads(FencedMatch(text).group).raised THEN Raise("JSONDecodeError", <<>>)
         ELSE Outcome(json_loads(FencedMatch(text).group).value)
    ELSE IF RawMatch(text).found
    THEN IF json_loads(RawMatch(text).group).raised THEN Raise("JSONDecodeError", <<>>)
         ELSE Outcome(json_loads(RawMatch(text).group).value)
    ELSE Raise("ValueError",
               SubSeq(Flatten(text), 1, Min(PrefixLen, Len(Flatten(text)))))

\* One ollama.chat request with the answer of the service to it
Request(format, temperature, answer) ==
    [fn |-> "ollama.chat", format |-> format, temperature |-> temperature,
     answer |-> answer]

HasContent(answer) ==
    /\ "message" \in DOMAIN answer.response
    /\ "content" \in DOMAIN answer.response.message

\* generate: one request without a format at temperature 0.3; it returns
\* response["message"]["content"]
generate(answer) ==
    LET calls == <<Request("", 3, answer)>> IN
    IF answer.raises THEN [calls |-> calls, outcome |-> Raise("ResponseError", <<>>)]
    ELSE IF ~HasContent(answer) THEN [calls |-> calls, outcome |-> Raise("KeyError", <<>>)]
    ELSE [calls |-> calls, outcome |-> Outcome(answer.response.message.content)]

\* A generate_json that sends the second request whatever the first one gave
GenerateJsonAlwaysTwice(first, second) ==
    LET raw == generate(second) IN
    [calls |-> <<Request("json", 2, first)>> \o raw.calls,
     outcome |-> IF raw.outcome.raised THEN raw.outcome
                 ELSE _extract_json(raw.outcome.value)]

\* generate_json; first and second are the answers of the service to the
\* first and to the second request of the call
generate_json(first, second) ==
    LET calls == <<Request("json", 2, first)>> IN
    IF first.raises THEN [calls |-> calls, outcome |-> Raise("ResponseError", <<>>)]
    ELSE IF HasContent(first) /\ ~json_loads(first.response.message.content).raised
    THEN [calls |-> calls,
          outcome |-> Outcome(json_loads(first.response.message.content).value)]
    ELSE LET raw == generate(second) IN
         [calls |-> calls \o raw.calls,
          outcome |-> IF raw.outcome.raised THEN raw.outcome
                      ELSE _extract_json(raw.outcome.value)]

----------------------------------------------------------------------------
(* agent/nodes.py *)

\* A check that finds the store empty whatever it holds
ObserveAlwaysEmpty(store) == TRUE

\* not _store.list_patients(): the check of _ensure_store and of _load_store
ObservedEmpty(store) == ~NonEmpty(list_patients(store))

\* An _ensure_store that loads the directory on every call
EnsureAlways(store, files) == load_directory(store, files)

\* _ensure_store (nodes.py) and _load_store (mcp_server.py): load the directory
\* while the store lists no patient
_ensure_store(store, files) ==
    IF ~NonEmpty(list_patients(store)) THEN load_directory(store, files)
    ELSE [store |-> store, raised |-> FALSE]

\* A _load_store that never loads
LoadNothing(store, files) == [store |-> store, raised |-> FALSE]

_load_store(store, files) ==
    IF ~NonEmpty(list_patients(store)) THEN load_directory(store, files)
    ELSE [store |-> store, raised |-> FALSE]

\* " ".join(e.get("text", "") + " " + e.get("normalized", "") for e in entities).lower()
entity_texts(entities) ==
    Lower(Join([i \in DOMAIN entities |->
                  Get(entities[i], "text", <<>>) \o <<" ">>
                  \o Get(entities[i], "normalized", <<>>)], <<" ">>))

\* any(part in entity_texts for part in p["name"].lower().split() if len(part) > 2)
NameMentioned(p, texts) ==
    \E part \in Range(Split(Lower(p.name))) : Len(part) > 2 /\ Contains(texts, part)

\* A matching that tries every name token, however short
MatchAnyToken(patients, entities) ==
    IF ~NonEmpty(patients) THEN <<>>
    ELSE LET texts == entity_texts(entities)
             hits == {i \in DOMAIN patients :
                        \E part \in Range(Split(Lower(patients[i].name))) :
                            Contains(texts, part)}
         IN IF hits # {}
            THEN patients[CHOOSE i \in hits : \A j \in hits : i <= j].id
            ELSE patients[1].id

\* _match_patient_id, after _ensure_store; patients is _store.list_patients()
_match_patient_id(patients, entities) ==
    IF ~NonEmpty(patients) THEN <<>>
    ELSE LET texts == entity_texts(entities)
             hits == {i \in DOMAIN patients : NameMentioned(patients[i], texts)}
         IN IF hits # {}
            THEN patients[CHOOSE i \in hits : \A j \in hits : i <= j].id
            ELSE patients[1].id

\* parse_note: result is what extract_entities returned
parse_note(state, result, patients) ==
    LET entities == Get(result, "entities", <<>>) IN
    [extracted_entities |-> entities,
     patient_id |-> _match_patient_id(patients, entities)]

\* A decide_retrieval that passes on only the keys the model answered with
DecideWithoutDefaults(state, result) ==
    [k \in {"needs_retrieval", "retrieval_queries"}
          \cap {IF j = "queries" THEN "retrieval_queries" ELSE j : j \in DOMAIN result} |->
        IF k = "needs_retrieval" THEN result.needs_retrieval ELSE result.queries]

\* decide_retrieval: result is what llm_decide_retrieval returned
decide_retrieval(state, result) ==
    [needs_retrieval |-> Get(result, "needs_retrieval", False),
     retrieval_queries |-> Get(result, "queries", <<>>)]

NoGuidelineQuery == <<"Nenhuma consulta de diretriz solicitada.">>

TopK == 3

TopOverall == 5

\* An inner loop in which a later result with a seen text replaces the kept one
AddResultsKeepLast(acc, results) ==
    LET F[n \in 0..Len(results)] ==
            IF n = 0 THEN acc
            ELSE LET r == results[n]
                     kept == F[n - 1].all_results
                 IN IF r.text \notin F[n - 1].seen_texts
                    THEN [all_results |-> Append(kept, r),
                          seen_texts |-> F[n - 1].seen_texts \cup {r.text}]
                    ELSE [all_results |->
                             [i \in DOMAIN kept |->
                                 IF kept[i].text = r.text THEN r ELSE kept[i]],
                          seen_texts |-> F[n - 1].seen_texts]
    IN F[Len(results)]

\* The inner loop of retrieve_guidelines: keep the results whose text was not seen
RECURSIVE AddResults(_, _)
AddResults(acc, results) ==
    IF results = <<>> THEN acc
    ELSE LET r == Head(results) IN
         AddResults(IF r.text \notin acc.seen_texts
                    THEN [all_results |-> Append(acc.all_results, r),
                          seen_texts |-> acc.seen_texts \cup {r.text}]
                    ELSE acc,
                    Tail(results))

\* An outer loop that asks for one result more per query
RECURSIVE CollectOneMore(_, _, _)
CollectOneMore(acc, queries, idx) ==
    IF queries = <<>> THEN acc
    ELSE CollectOneMore(AddResults(acc, retrieve(idx[Head(queries)], TopK + 1)),
                        Tail(queries), idx)

\* The outer loop of retrieve_guidelines: one retrieve(query, top_k=3) per query
RECURSIVE Collect(_, _, _)
Collect(acc, queries, idx) ==
    IF queries = <<>> THEN acc
    ELSE Collect(AddResults(acc, retrieve(idx[Head(queries)], TopK)), Tail(queries), idx)

\* list.sort(key=score, reverse=True): stable, so equal scores keep their order
RECURSIVE SortByScore(_)
SortByScore(results) ==
    IF results = <<>> THEN <<>>
    ELSE LET before == SortByScore(SubSeq(results, 1, Len(results) - 1))
             r == results[Len(results)]
             n == Cardinality({i \in DOMAIN before : before[i].score >= r.score})
         IN SubSeq(before, 1, n) \o <<r>> \o SubSeq(before, n + 1, Len(before))

\* all_results[:5] without the sort
FirstResults(all_results) == SubSeq(all_results, 1, Min(TopOverall, Len(all_results)))

\* all_results[:5] after the sort
TopResults(all_results) ==
    LET sorted == SortByScore(all_results) IN
    SubSeq(sorted, 1, Min(TopOverall, Len(sorted)))

\* A retrieve_guidelines without its guard on the query list
RetrieveWithoutGuard(state, idx) ==
    LET queries == Get(state, "retrieval_queries", <<>>)
        acc == Collect([all_results |-> <<>>, seen_texts |-> {}], queries, idx)
    IN [guidelines |-> format_context(TopResults(acc.all_results))]

\* retrieve_guidelines when no retrieve call fails; idx is the vector index
retrieve_guidelines(state, idx) ==
    LET queries == Get(state, "retrieval_queries", <<>>) IN
    IF ~NonEmpty(queries) THEN [guidelines |-> NoGuidelineQuery]
    ELSE LET acc == Collect([all_results |-> <<>>, seen_texts |-> {}], queries, idx)
         IN [guidelines |-> format_context(TopResults(acc.all_results))]

PatientNotIdentified == <<"Paciente nao identificado.">>

\* The four tools fetch_patient_data calls, in its order
PatientTools ==
    <<"consultar_paciente", "consultar_condicoes", "consultar_medicamentos",
      "consultar_sinais_vitais">>

CallTool(tool, store, patient_id) ==
    CASE tool = "consultar_paciente" -> consultar_paciente(store, patient_id)
      [] tool = "consultar_condicoes" -> consultar_condicoes(store, patient_id)
      [] tool = "consultar_medicamentos" -> consultar_medicamentos(store, patient_id)
      [] tool = "consultar_sinais_vitais" -> consultar_sinais_vitais(store, patient_id)

\* The tool calls of fetch_patient_data one after another, each behind its
\* _load_store; a failing load ends them
RECURSIVE CallTools(_, _, _, _)
CallTools(tools, acc, files, patient_id) ==
    IF tools = <<>> THEN acc
    ELSE LET ld == _load_store(acc.store, files)
             called == Append(acc.calls, <<Head(tools), patient_id>>)
         IN IF ld.raised
            THEN [acc EXCEPT !.store = ld.store, !.calls = called, !.raised = TRUE]
            ELSE CallTools(Tail(tools),
                           [store |-> ld.store,
                            sections |-> Append(acc.sections,
                                                CallTool(Head(tools), ld.store, patient_id)),
                            calls |-> called,
                            raised |-> FALSE],
                           files, patient_id)

SectionSeparator == <<"\n\n">>

\* A fetch_patient_data that asks for the conditions before the demographics
FetchConditionsFirst(state, store, files) ==
    LET patient_id == Get(state, "patient_id", <<>>) IN
    IF ~Truthy(patient_id)
    THEN [update |-> [patient_data |-> PatientNotIdentified],
          store |-> store, calls |-> <<>>, raised |-> FALSE]
    ELSE LET r == CallTools(<<"consultar_condicoes", "consultar_paciente",
                              "consultar_medicamentos", "consultar_sinais_vitais">>,
                            [store |-> store, sections |-> <<>>, calls |-> <<>>,
                             raised |-> FALSE],
                            files, patient_id)
         IN [update |-> [patient_data |-> Join(r.sections, SectionSeparator)],
             store |-> r.store, calls |-> r.calls, raised |-> r.raised]

\* fetch_patient_data: its update, the store the tools leave, the tool calls made
fetch_patient_data(state, store, files) ==
    LET patient_id == Get(state, "patient_id", <<>>) IN
    IF ~Truthy(patient_id)
    THEN [update |-> [patient_data |-> PatientNotIdentified],
          store |-> store, calls |-> <<>>, raised |-> FALSE]
    ELSE LET r == CallTools(PatientTools,
                            [store |-> store, sections |-> <<>>, calls |-> <<>>,
                             raised |-> FALSE],
                            files, patient_id)
         IN [update |-> [patient_data |-> Join(r.sections, SectionSeparator)],
             store |-> r.store, calls |-> r.calls, raised |-> r.raised]

NotAvailable == <<"Nao disponivel">>

\* The arguments generate_report passes to llm_generate_report
ReportArgs(state) ==
    [note |-> state.patient_note,
     patient_data |-> Get(state, "patient_data", NotAvailable),
     guidelines |-> Get(state, "guidelines", NotAvailable)]

\* generate_report: report is what llm_generate_report returned
generate_report(state, report) == [report |-> report]

NoReportEvaluation ==
    [overall |-> [score |-> 0, feedback |-> <<"Nenhum relatorio gerado.">>]]

\* An evaluate_report without its guard on the report
EvaluateWithoutGuard(state, evaluation) == [evaluation |-> evaluation]

\* An evaluate_report that hands the report back with its evaluation
EvaluateAndEchoReport(state, evaluation) ==
    IF ~NonEmpty(Get(state, "report", <<>>))
    THEN [evaluation |-> NoReportEvaluation, report |-> Get(state, "report", <<>>)]
    ELSE [evaluation |-> evaluation, report |-> state.report]

\* evaluate_report: evaluation is what llm_evaluate_report returns when called
evaluate_report(state, evaluation) ==
    IF ~NonEmpty(Get(state, "report", <<>>)) THEN [evaluation |-> NoReportEvaluation]
    ELSE [evaluation |-> evaluation]

----------------------------------------------------------------------------
(* agent/graph.py *)

\* A routing that asks for the value True instead of a truthy value
RouteOnlyOnTrue(state) ==
    IF Get(state, "needs_retrieval", False) = True THEN "retrieve_guidelines"
    ELSE "fetch_patient_data"

\* _route_retrieval
_route_retrieval(state) ==
    IF Truthy(Get(state, "needs_retrieval", False)) THEN "retrieve_guidelines"
    ELSE "fetch_patient_data"

\* A wiring with the edge decide_retrieval -> retrieve_guidelines unconditional
AlwaysRetrieve(node, state) ==
    CASE node = "parse_note" -> "decide_retrieval"
      [] node = "decide_retrieval" -> "retrieve_guidelines"
      [] node = "retrieve_guidelines" -> "fetch_patient_data"
      [] node = "fetch_patient_data" -> "generate_report"
      [] node = "generate_report" -> "evaluate_report"
      [] node = "evaluate_report" -> "END"

\* The edges build_graph wires: the node that follows node in state
NextNode(node, state) ==
    CASE node = "parse_note" -> "decide_retrieval"
      [] node = "decide_retrieval" -> _route_retrieval(state)
      [] node = "retrieve_guidelines" -> "fetch_patient_data"
      [] node = "fetch_patient_data" -> "generate_report"
      [] node = "generate_report" -> "evaluate_report"
      [] node = "evaluate_report" -> "END"

\* The graph runtime merges a node's update into the running state
Merge(state, update) ==
    [k \in DOMAIN state \cup DOMAIN update |->
        IF k \in DOMAIN update THEN update[k] ELSE state[k]]

\* A runtime that runs a failed node again
RetryNode(node) == node

\* build_graph sets no retry policy and no error handler: a node's exception
\* leaves the graph and ends invoke
AfterFailure(node) == "raised"

----------------------------------------------------------------------------
(* The environment: the bundle files on disk, the vector index, the answers
   of the language model *)

Joao == <<"J", "o", "a", "o">>

Ana == <<"A", "n", "a">>

Li == <<"L", "i">>

PatientResource(id, given, family) ==
    [resourceType |-> <<"Patient">>, id |-> <<id>>,
     name |-> << [given |-> <<given>>, family |-> family] >>,
     gender |-> <<"male">>, birthDate |-> <<"1960-01-01">>]

ClinicalResource(type, ref, text) ==
    [resourceType |-> <<type>>, subject |-> [reference |-> ref],
     code |-> [text |-> <<text>>]]

BundleJoao ==
    [resourceType |-> <<"Bundle">>,
     entry |-> << [fullUrl |-> <<"urn:uuid:", "u1">>,
                   resource |-> PatientResource("p1", Joao, Li)],
                  [resource |-> ClinicalResource("Condition", <<"urn:uuid:", "u1">>, "HAS")],
                  [resource |-> [resourceType |-> <<"MedicationRequest">>,
                                 subject |-> [reference |-> <<"Patient/", "p1">>],
                                 medicationCodeableConcept |-> [text |-> <<"Losartana">>],
                                 status |-> <<"active">>]],
                  [resource |-> [resourceType |-> <<"Observation">>,
                                 code |-> [text |-> <<"orphan">>]]] >>]

BundleAna ==
    [resourceType |-> <<"Bundle">>,
     entry |-> << [resource |-> PatientResource("p0", Ana, <<>>)],
                  [resource |-> [resourceType |-> <<"Observation">>,
                                 subject |-> [reference |-> <<"Patient/", "p0">>],
                                 code |-> [text |-> <<"FC">>],
                                 valueQuantity |-> [value |-> <<"72">>,
                                                    unit |-> <<"bpm">>]]] >>]

NotABundle == [resourceType |-> <<"Patient">>, id |-> <<"x">>]

\* The directories the workflow is run against: the *.json files of the data
\* directory, in the order of their names
Directories ==
    << <<>>, <<BundleJoao>>, <<BundleAna, BundleJoao>>, <<BundleJoao, NotABundle>>,
       <<NotABundle>> >>

Hit(text, source, score) ==
    [text |-> <<text>>, source |-> <<source>>, chunk_index |-> 0, score |-> score]

Queries == {<<"q1">>, <<"q2">>}

\* What the vector index returns in the workflow runs
WorkflowIndex ==
    [q \in Queries |->
        IF q = <<"q1">>
        THEN <<Hit("t1", "a.txt", 904), Hit("t2", "a.txt", 611)>>
        ELSE <<Hit("t1", "b.txt", 342)>>]

Notes == {<<"note">>}

\* What extract_entities may return
ExtractResults ==
    << [entities |-> << [text |-> Joao, type |-> <<"patient">>, normalized |-> Joao] >>],
       [entities |-> << [text |-> <<"d", "o", "r">>, type |-> <<"symptom">>] >>],
       <<>> >>

\* What llm_decide_retrieval may return
DecideResults ==
    << [needs_retrieval |-> True, queries |-> << <<"q1">>, <<"q2">> >>],
       [needs_retrieval |-> True, queries |-> <<>>],
       [needs_retrieval |-> True],
       [needs_retrieval |-> <<"no">>, queries |-> << <<"q2">> >>],
       [needs_retrieval |-> False, queries |-> <<>>],
       [needs_retrieval |-> None, queries |-> << <<"q1">> >>],
       <<>> >>

\* What llm_generate_report may return
ReportResults == << [findings |-> <<"HAS">>, plan |-> <<"BCC">>], <<>> >>

\* What llm_evaluate_report may return
EvaluationResults ==
    << [overall |-> [score |-> 4, feedback |-> <<"OK">>]],
       [overall |-> [score |-> 7, feedback |-> <<"OK">>]],
       [clarity |-> [score |-> 3, feedback |-> <<"OK">>]] >>

\* The number of workflow runs one process makes
MaxRuns == 2

----------------------------------------------------------------------------
(* The workflow: graph.invoke({"patient_note": note}) *)

VARIABLES
    pc,              \* the node about to run, or "idle", "END", "raised"
    state,           \* the running AgentState
    result,          \* what invoke returned; <<>> while it has returned nothing
    executed,        \* the nodes started by this run, in order
    last_update,     \* the update the last node returned
    nodes_store,     \* agent/nodes.py _store
    mcp_store,       \* mcp_server.py _store
    directory,       \* the bundle files of settings.synthea_data_dir
    index,           \* the vector index: query -> ranked hits
    llm_calls,       \* the language-model calls of this run
    retriever_calls, \* the retrieve calls of this run, with what each returned
    tool_calls,      \* the patient-data tool calls of this run
    all_results,     \* retrieve_guidelines' merged list, before its sort
    raised_in,       \* the node whose exception ended this run, "" if none did
    runs,            \* the workflow runs started so far
    loaded,          \* the load_bundle calls made on the store, each with its outcome
    returned,        \* what the last direct call of a library function returned
    collection,      \* the guideline collection of the vector index, <<>> if none
    qdrant_calls,    \* the requests made to the vector index client
    embed_calls      \* the texts sent to the embedding service

vars ==
    <<pc, state, result, executed, last_update, nodes_store, mcp_store, directory,
      index, llm_calls, retriever_calls, tool_calls, all_results, raised_in, runs,
      loaded, returned, collection, qdrant_calls, embed_calls>>

\* The variables of the record-store, language-model and ingestion library calls
library_vars == <<loaded, returned, collection, qdrant_calls, embed_calls>>

InitLibrary ==
    /\ loaded = <<>>
    /\ returned = <<>>
    /\ collection = <<>>
    /\ qdrant_calls = <<>>
    /\ embed_calls = <<>>

Nodes ==
    {"parse_note", "decide_retrieval", "retrieve_guidelines", "fetch_patient_data",
     "generate_report", "evaluate_report"}

Init ==
    /\ pc = "idle"
    /\ state = <<>>
    /\ result = <<>>
    /\ executed = <<>>
    /\ last_update = <<>>
    /\ nodes_store = FHIRStore
    /\ mcp_store = FHIRStore
    /\ \E d \in DOMAIN Directories : directory = Directories[d]
    /\ index = WorkflowIndex
    /\ llm_calls = <<>>
    /\ retriever_calls = <<>>
    /\ tool_calls = <<>>
    /\ all_results = <<>>
    /\ raised_in = ""
    /\ runs = 0
    /\ InitLibrary

\* graph.invoke: a run starts at the entry point with the note as its state
Invoke ==
    /\ pc \in {"idle", "END", "raised"}
    /\ runs < MaxRuns
    /\ \E note \in Notes : state' = [patient_note |-> note]
    /\ pc' = "parse_note"
    /\ result' = <<>>
    /\ executed' = <<>>
    /\ last_update' = <<>>
    /\ llm_calls' = <<>>
    /\ retriever_calls' = <<>>
    /\ tool_calls' = <<>>
    /\ all_results' = <<>>
    /\ raised_in' = ""
    /\ runs' = runs + 1
    /\ UNCHANGED <<nodes_store, mcp_store, directory, index>>
    /\ UNCHANGED library_vars

\* The runtime after node returned update: merge, follow the edge, and return
\* the state once the edge leads to END
Advance(node, update) ==
    /\ state' = Merge(state, update)
    /\ last_update' = update
    /\ executed' = Append(executed, node)
    /\ pc' = NextNode(node, Merge(state, update))
    /\ result' = IF NextNode(node, Merge(state, update)) = "END"
                 THEN Merge(state, update) ELSE result
    /\ UNCHANGED raised_in

\* The runtime after node raised
Abort(node) ==
    /\ pc' = AfterFailure(node)
    /\ raised_in' = node
    /\ executed' = Append(executed, node)
    /\ last_update' = <<>>
    /\ UNCHANGED <<state, result>>

LlmCall(fn, args) == [fn |-> fn, args |-> args]

\* Node parse_note: extract_entities, then _match_patient_id behind _ensure_store
ParseNote ==
    /\ pc = "parse_note"
    /\ llm_calls' = Append(llm_calls, LlmCall("extract_entities", <<state.patient_note>>))
    /\ \E r \in 0..Len(ExtractResults) :
          IF r = 0
          THEN Abort("parse_note") /\ UNCHANGED nodes_store
          ELSE \E ensured \in {_ensure_store(nodes_store, directory)} :
               /\ nodes_store' = ensured.store
               /\ IF ensured.raised
                  THEN Abort("parse_note")
                  ELSE Advance("parse_note",
                               parse_note(state, ExtractResults[r],
                                          list_patients(ensured.store)))
    /\ UNCHANGED <<mcp_store, directory, index, retriever_calls, tool_calls,
                   all_results, runs>>
    /\ UNCHANGED library_vars

\* Node decide_retrieval
DecideRetrieval ==
    /\ pc = "decide_retrieval"
    /\ llm_calls' = Append(llm_calls,
                           LlmCall("decide_retrieval",
                                   <<state.patient_note,
                                     Get(state, "extracted_entities", <<>>)>>))
    /\ \E r \in 0..Len(DecideResults) :
          IF r = 0 THEN Abort("decide_retrieval")
          ELSE Advance("decide_retrieval", decide_retrieval(state, DecideResults[r]))
    /\ UNCHANGED <<nodes_store, mcp_store, directory, index, retriever_calls,
                   tool_calls, all_results, runs>>
    /\ UNCHANGED library_vars

\* The retrieve calls of retrieve_guidelines for the first n queries, each with
\* what it returned
RetrieveCalls(queries, idx, n) ==
    [i \in 1..n |->
        [query |-> queries[i], top_k |-> TopK, results |-> retrieve(idx[queries[i]], TopK)]]

\* Node retrieve_guidelines; the embedding or the search of the fail_at-th
\* retrieve call fails, of none when fail_at is 0
RetrieveGuidelines ==
    /\ pc = "retrieve_guidelines"
    /\ LET queries == Get(state, "retrieval_queries", <<>>) IN
       \E fail_at \in 0..Len(queries) :
          IF fail_at = 0
          THEN /\ Advance("retrieve_guidelines", retrieve_guidelines(state, index))
               /\ retriever_calls' =
                     retriever_calls \o RetrieveCalls(queries, index, Len(queries))
               /\ all_results' =
                     Collect([all_results |-> <<>>, seen_texts |-> {}],
                             queries, index).all_results
          ELSE /\ Abort("retrieve_guidelines")
               /\ retriever_calls' =
                     retriever_calls \o RetrieveCalls(queries, index, fail_at - 1)
                     \o << [query |-> queries[fail_at], top_k |-> TopK] >>
               /\ all_results' =
                     Collect([all_results |-> <<>>, seen_texts |-> {}],
                             SubSeq(queries, 1, fail_at - 1), index).all_results
    /\ UNCHANGED <<nodes_store, mcp_store, directory, index, llm_calls, tool_calls, runs>>
    /\ UNCHANGED library_vars

\* Node fetch_patient_data
FetchPatientData ==
    /\ pc = "fetch_patient_data"
    /\ \E r \in {fetch_patient_data(state, mcp_store, directory)} :
       /\ mcp_store' = r.store
       /\ tool_calls' = tool_calls \o r.calls
       /\ IF r.raised THEN Abort("fetch_patient_data")
          ELSE Advance("fetch_patient_data", r.update)
    /\ UNCHANGED <<nodes_store, directory, index, llm_calls, retriever_calls,
                   all_results, runs>>
    /\ UNCHANGED library_vars

\* Node generate_report
GenerateReport ==
    /\ pc = "generate_report"
    /\ llm_calls' = Append(llm_calls, LlmCall("generate_report", ReportArgs(state)))
    /\ \E r \in 0..Len(ReportResults) :
          IF r = 0 THEN Abort("generate_report")
          ELSE Advance("generate_report", generate_report(state, ReportResults[r]))
    /\ UNCHANGED <<nodes_store, mcp_store, directory, index, retriever_calls,
                   tool_calls, all_results, runs>>
    /\ UNCHANGED library_vars

\* Node evaluate_report: the evaluation service is called for a non-empty report
EvaluateReport ==
    /\ pc = "evaluate_report"
    /\ IF ~NonEmpty(Get(state, "report", <<>>))
       THEN /\ Advance("evaluate_report", evaluate_report(state, <<>>))
            /\ UNCHANGED llm_calls
       ELSE /\ llm_calls' = Append(llm_calls, LlmCall("evaluate_report", <<state.report>>))
            /\ \E r \in 0..Len(EvaluationResults) :
                  IF r = 0 THEN Abort("evaluate_report")
                  ELSE Advance("evaluate_report",
                               evaluate_report(state, EvaluationResults[r]))
    /\ UNCHANGED <<nodes_store, mcp_store, directory, index, retriever_calls,
                   tool_calls, all_results, runs>>
    /\ UNCHANGED library_vars

Next ==
    \/ Invoke
    \/ ParseNote
    \/ DecideRetrieval
    \/ RetrieveGuidelines
    \/ FetchPatientData
    \/ GenerateReport
    \/ EvaluateReport

Spec == Init /\ [][Next]_vars

----------------------------------------------------------------------------
(* parse_note called on its own, as the unit tests call it, against a data
   directory of one-patient bundles *)

\* The length of the data directories parse_note is called against
MaxPatients == 2

\* The length of the entity lists the extraction returns
MaxEntities == 2

SeqsUpTo(S, n) == UNION {[1..k -> S] : k \in 0..n}

PatientBundle(patient) ==
    [resourceType |-> <<"Bundle">>, entry |-> << [resource |-> patient] >>]

\* Patients named "Joao Li", "Ana", "Li Bo" and a patient without a name
MatchPatients ==
    {PatientResource("p1", Joao, Li), PatientResource("p0", Ana, <<>>),
     PatientResource("p2", Li, <<"B", "o">>),
     [resourceType |-> <<"Patient">>, id |-> <<"p3">>]}

MatchDirectories == SeqsUpTo({PatientBundle(p) : p \in MatchPatients}, MaxPatients)

\* Entities the extraction may return: with one field, both or none
MatchEntities ==
    {[text |-> <<"s", "r", " ">> \o Joao, type |-> <<"patient">>],
     [text |-> <<"d", "o", "r">>, normalized |-> <<"J", "o", "a", "n", "a">>],
     [normalized |-> Li, type |-> <<"patient">>],
     [type |-> <<"symptom">>]}

\* What extract_entities may return to the direct calls
MatchResults == {<<>>} \cup {[entities |-> es] : es \in SeqsUpTo(MatchEntities, MaxEntities)}

InitMatch ==
    /\ pc = "direct"
    /\ state = <<>>
    /\ result = <<>>
    /\ executed = <<>>
    /\ last_update = <<>>
    /\ nodes_store = FHIRStore
    /\ mcp_store = FHIRStore
    /\ directory \in MatchDirectories
    /\ index = WorkflowIndex
    /\ llm_calls = <<>>
    /\ retriever_calls = <<>>
    /\ tool_calls = <<>>
    /\ all_results = <<>>
    /\ raised_in = ""
    /\ runs = 0
    /\ InitLibrary

\* parse_note(state); an exception of the extraction or of the load reaches
\* the caller
CallParseNote ==
    /\ pc \in {"direct", "returned", "raised"}
    /\ \E note \in Notes :
          /\ state' = [patient_note |-> note]
          /\ llm_calls' = <<LlmCall("extract_entities", <<note>>)>>
    /\ executed' = <<"parse_note">>
    /\ \/ /\ pc' = "raised"
          /\ raised_in' = "parse_note"
          /\ last_update' = <<>>
          /\ UNCHANGED nodes_store
       \/ \E r \in MatchResults :
             \E ensured \in {_ensure_store(nodes_store, directory)} :
             /\ nodes_store' = ensured.store
             /\ pc' = IF ensured.raised THEN "raised" ELSE "returned"
             /\ raised_in' = IF ensured.raised THEN "parse_note" ELSE ""
             /\ last_update' =
                   IF ensured.raised THEN <<>>
                   ELSE parse_note(state', r, list_patients(ensured.store))
    /\ UNCHANGED <<result, mcp_store, directory, index, retriever_calls, tool_calls,
                   all_results, runs>>
    /\ UNCHANGED library_vars

NextMatch == CallParseNote

SpecMatch == InitMatch /\ [][NextMatch]_vars

----------------------------------------------------------------------------
(* retrieve_guidelines called on its own, as the unit tests call it, against
   vector indexes that answer the two queries with any ranking of their pools *)

\* The number of points the index holds for one query
MaxRanking == 4

\* The length of the query lists
MaxQueries == 3

\* What the index may hold for q1, by descending score: t1 twice, from two files
PoolA ==
    <<Hit("t1", "a.txt", 904), Hit("t2", "a.txt", 611), Hit("t3", "a.txt", 342),
      Hit("t1", "c.txt", 311)>>

\* What the index may hold for q2, by descending score: t3 and t1 are also
\* answers to q1, with other scores
PoolB ==
    <<Hit("t3", "b.txt", 953), Hit("t4", "b.txt", 904), Hit("t5", "b.txt", 702),
      Hit("t1", "b.txt", 342), Hit("t6", "b.txt", 311)>>

\* The hits of pool at the positions S, in the order of the pool
Pick(pool, S) ==
    LET F[i \in 0..Len(pool)] ==
            IF i = 0 THEN <<>>
            ELSE IF i \in S THEN Append(F[i - 1], pool[i]) ELSE F[i - 1]
    IN F[Len(pool)]

Rankings(pool) ==
    {Pick(pool, S) : S \in {T \in SUBSET DOMAIN pool : Cardinality(T) <= MaxRanking}}

Indexes ==
    {[q \in Queries |-> IF q = <<"q1">> THEN ra ELSE rb] :
        ra \in Rankings(PoolA), rb \in Rankings(PoolB)}

\* The states retrieve_guidelines is called with: retrieval_queries absent,
\* empty or a list of queries
RetrieveStates ==
    {[patient_note |-> <<"note">>, needs_retrieval |-> True],
     [retrieval_queries |-> <<>>]}
    \cup {[patient_note |-> <<"note">>, needs_retrieval |-> True,
           retrieval_queries |-> qs] : qs \in SeqsUpTo(Queries, MaxQueries)}

InitRetrieve ==
    /\ pc = "direct"
    /\ state = <<>>
    /\ result = <<>>
    /\ executed = <<>>
    /\ last_update = <<>>
    /\ nodes_store = FHIRStore
    /\ mcp_store = FHIRStore
    /\ directory = <<>>
    /\ index \in Indexes
    /\ llm_calls = <<>>
    /\ retriever_calls = <<>>
    /\ tool_calls = <<>>
    /\ all_results = <<>>
    /\ raised_in = ""
    /\ runs = 0
    /\ InitLibrary

\* retrieve_guidelines(s); the fail_at-th retrieve call raises, or none when
\* fail_at is 0
DirectRetrieve(s) ==
    LET queries == Get(s, "retrieval_queries", <<>>) IN
    \E fail_at \in 0..Len(queries) :
       /\ state' = s
       /\ executed' = <<"retrieve_guidelines">>
       /\ IF fail_at = 0
          THEN /\ pc' = "returned"
               /\ raised_in' = ""
               /\ last_update' = retrieve_guidelines(s, index)
               /\ retriever_calls' = RetrieveCalls(queries, index, Len(queries))
               /\ all_results' =
                     Collect([all_results |-> <<>>, seen_texts |-> {}],
                             queries, index).all_results
          ELSE /\ pc' = "raised"
               /\ raised_in' = "retrieve_guidelines"
               /\ last_update' = <<>>
               /\ retriever_calls' =
                     RetrieveCalls(queries, index, fail_at - 1)
                     \o << [query |-> queries[fail_at], top_k |-> TopK] >>
               /\ all_results' =
                     Collect([all_results |-> <<>>, seen_texts |-> {}],
                             SubSeq(queries, 1, fail_at - 1), index).all_results

CallRetrieveGuidelines ==
    /\ pc = "direct"
    /\ \E s \in RetrieveStates : DirectRetrieve(s)
    /\ UNCHANGED <<result, nodes_store, mcp_store, directory, index, llm_calls,
                   tool_calls, runs>>
    /\ UNCHANGED library_vars

NextRetrieve == CallRetrieveGuidelines

SpecRetrieve == InitRetrieve /\ [][NextRetrieve]_vars

----------------------------------------------------------------------------
(* fetch_patient_data called on its own, as the unit tests call it *)

\* The number of files in the data directory of the tools
MaxFiles == 2

FetchDirectories == SeqsUpTo({BundleJoao, BundleAna, NotABundle}, MaxFiles)

\* The states fetch_patient_data is called with: patient_id absent, empty, the
\* id of a patient on file or an id that is not on file
FetchStates ==
    {[patient_note |-> <<"note">>], [patient_id |-> <<>>], [patient_id |-> <<"p1">>],
     [patient_id |-> <<"p0">>], [patient_id |-> <<"zz">>],
     [patient_note |-> <<"note">>, patient_id |-> <<>>],
     [patient_note |-> <<"note">>, patient_id |-> <<"p1">>]}

InitFetch ==
    /\ pc = "direct"
    /\ state = <<>>
    /\ result = <<>>
    /\ executed = <<>>
    /\ last_update = <<>>
    /\ nodes_store = FHIRStore
    /\ mcp_store = FHIRStore
    /\ directory \in FetchDirectories
    /\ index = WorkflowIndex
    /\ llm_calls = <<>>
    /\ retriever_calls = <<>>
    /\ tool_calls = <<>>
    /\ all_results = <<>>
    /\ raised_in = ""
    /\ runs = 0
    /\ InitLibrary

\* fetch_patient_data(state); an exception of the lazy load reaches the caller
CallFetchPatientData ==
    /\ pc \in {"direct", "returned", "raised"}
    /\ \E s \in FetchStates :
          \E r \in {fetch_patient_data(s, mcp_store, directory)} :
          /\ state' = s
          /\ executed' = <<"fetch_patient_data">>
          /\ mcp_store' = r.store
          /\ tool_calls' = r.calls
          /\ pc' = IF r.raised THEN "raised" ELSE "returned"
          /\ raised_in' = IF r.raised THEN "fetch_patient_data" ELSE ""
          /\ last_update' = IF r.raised THEN <<>> ELSE r.update
    /\ UNCHANGED <<result, nodes_store, directory, index, llm_calls, retriever_calls,
                   all_results, runs>>
    /\ UNCHANGED library_vars

NextFetch == CallFetchPatientData

SpecFetch == InitFetch /\ [][NextFetch]_vars

----------------------------------------------------------------------------
(* The four nodes that read optional fields, called on their own one call
   after another *)

\* A language-model call that returned
LlmAnswer(fn, args, answer) == [fn |-> fn, args |-> args, returned |-> answer]

\* The states retrieve_guidelines is called with here
NodeRetrieveStates ==
    {[patient_note |-> <<"note">>, needs_retrieval |-> True],
     [patient_note |-> <<"note">>, needs_retrieval |-> True, retrieval_queries |-> <<>>],
     [patient_note |-> <<"note">>, needs_retrieval |-> True,
      retrieval_queries |-> << <<"q1">>, <<"q2">> >>]}

\* The states generate_report is called with: patient_data and guidelines
\* absent, empty or a text
GenerateStates ==
    {[k \in {"patient_note"} \cup ks |->
         IF k = "patient_note" THEN <<"note">>
         ELSE IF k = "patient_data" THEN pd ELSE gl] :
       ks \in SUBSET {"patient_data", "guidelines"},
       pd \in {<<>>, <<"Nome: ", "J">>}, gl \in {<<>>, NoGuidelineQuery}}

\* The states evaluate_report is called with: report absent, empty or a report
EvaluateStates ==
    {[patient_note |-> <<"note">>], [report |-> <<>>],
     [patient_note |-> <<"note">>, report |-> <<>>]}
    \cup {[patient_note |-> <<"note">>, report |-> ReportResults[1]],
          [report |-> [summary |-> <<"ok">>]]}

InitNodes ==
    /\ pc = "direct"
    /\ state = <<>>
    /\ result = <<>>
    /\ executed = <<>>
    /\ last_update = <<>>
    /\ nodes_store = FHIRStore
    /\ mcp_store = FHIRStore
    /\ \E d \in DOMAIN Directories : directory = Directories[d]
    /\ index = WorkflowIndex
    /\ llm_calls = <<>>
    /\ retriever_calls = <<>>
    /\ tool_calls = <<>>
    /\ all_results = <<>>
    /\ raised_in = ""
    /\ runs = 0
    /\ InitLibrary

NodeRetrieveGuidelines ==
    /\ pc \in {"direct", "returned", "raised"}
    /\ \E s \in NodeRetrieveStates : DirectRetrieve(s)
    /\ UNCHANGED <<result, nodes_store, mcp_store, directory, index, llm_calls,
                   tool_calls, runs>>
    /\ UNCHANGED library_vars

\* generate_report(state); r = 0 is a language-model call that raises
CallGenerateReport ==
    /\ pc \in {"direct", "returned", "raised"}
    /\ \E s \in GenerateStates :
          \E r \in 0..Len(ReportResults) :
             /\ state' = s
             /\ executed' = <<"generate_report">>
             /\ IF r = 0
                THEN /\ pc' = "raised"
                     /\ raised_in' = "generate_report"
                     /\ last_update' = <<>>
                     /\ llm_calls' = <<LlmCall("generate_report", ReportArgs(s))>>
                ELSE /\ pc' = "returned"
                     /\ raised_in' = ""
                     /\ last_update' = generate_report(s, ReportResults[r])
                     /\ llm_calls' =
                           <<LlmAnswer("generate_report", ReportArgs(s), ReportResults[r])>>
    /\ UNCHANGED <<result, nodes_store, mcp_store, directory, index, retriever_calls,
                   tool_calls, all_results, runs>>
    /\ UNCHANGED library_vars

\* evaluate_report(state); the evaluation service is called for a non-empty
\* report, and r = 0 is a call of it that raises
CallEvaluateReport ==
    /\ pc \in {"direct", "returned", "raised"}
    /\ \E s \in EvaluateStates :
          /\ state' = s
          /\ executed' = <<"evaluate_report">>
          /\ IF ~NonEmpty(Get(s, "report", <<>>))
             THEN /\ pc' = "returned"
                  /\ raised_in' = ""
                  /\ last_update' = evaluate_report(s, <<>>)
                  /\ llm_calls' = <<>>
             ELSE \E r \in 0..Len(EvaluationResults) :
                     IF r = 0
                     THEN /\ pc' = "raised"
                          /\ raised_in' = "evaluate_report"
                          /\ last_update' = <<>>
                          /\ llm_calls' = <<LlmCall("evaluate_report", <<s.report>>)>>
                     ELSE /\ pc' = "returned"
                          /\ raised_in' = ""
                          /\ last_update' = evaluate_report(s, EvaluationResults[r])
                          /\ llm_calls' =
                                <<LlmAnswer("evaluate_report", <<s.report>>,
                                            EvaluationResults[r])>>
    /\ UNCHANGED <<result, nodes_store, mcp_store, directory, index, retriever_calls,
                   tool_calls, all_results, runs>>
    /\ UNCHANGED library_vars

NextNodes ==
    \/ NodeRetrieveGuidelines
    \/ CallFetchPatientData
    \/ CallGenerateReport
    \/ CallEvaluateReport

SpecNodes == InitNodes /\ [][NextNodes]_vars

----------------------------------------------------------------------------
(* The record store on its own: load_bundle and load_directory called on one
   store, every file loaded once.  Here directory is the listing of the data
   directory as the file system gives it, each file with its name. *)

\* The number of files in the listing of the data directory
MaxListing == 2

File(parent, name, doc) == [parent |-> parent, name |-> name, doc |-> doc]

\* A bundle whose patient p0 is also in BundleAna, with an observation of p1,
\* a condition of nobody known and an observation of p0
BundleCross ==
    [resourceType |-> <<"Bundle">>,
     entry |-> << [fullUrl |-> <<"urn:uuid:", "u0">>,
                   resource |-> PatientResource("p0", Li, Ana)],
                  [resource |-> ClinicalResource("Observation", <<"Patient/", "p1">>, "PA")],
                  [resource |-> ClinicalResource("Condition", <<"urn:uuid:", "zz">>, "DM")],
                  [resource |-> ClinicalResource("Observation", <<"urn:uuid:", "u0">>, "FR")] >>]

\* A bundle whose second patient has no id
BundleNoId ==
    [resourceType |-> <<"Bundle">>,
     entry |-> << [resource |-> PatientResource("p2", Ana, Li)],
                  [resource |-> [resourceType |-> <<"Patient">>]],
                  [resource |-> ClinicalResource("Condition", <<"Patient/", "p2">>, "IC")] >>]

\* The bundle of a file that is not a *.json file
BundleNotes ==
    [resourceType |-> <<"Bundle">>,
     entry |-> << [resource |-> PatientResource("p3", Ana, Li)] >>]

\* The files of the data directory
DirectoryFiles ==
    {File("synthea", <<"p", "1", ".", "json">>, BundleJoao),
     File("synthea", <<"p", "1", "0", ".", "json">>, BundleAna),
     File("synthea", <<"p", "1", "-", "x", ".", "json">>, BundleCross),
     File("synthea", <<"B", ".", "json">>, NotABundle),
     File("synthea", <<"n", ".", "txt">>, BundleNotes)}

\* Files load_bundle is called on directly: also bundles without entries
StoreFiles ==
    DirectoryFiles
    \cup {File("tmp", <<"e", ".", "json">>, [resourceType |-> <<"Bundle">>, entry |-> <<>>]),
          File("tmp", <<"e", "0", ".", "json">>, [resourceType |-> <<"Bundle">>]),
          File("tmp", <<"n", "0", ".", "json">>, BundleNoId)}

\* The listings of the data directory, in any order the file system may give
Listings ==
    {l \in SeqsUpTo(DirectoryFiles, MaxListing) :
        \A i, j \in DOMAIN l : l[i] = l[j] => i = j}
    \cup {<<File("metadata", f.name, f.doc)>> : f \in DirectoryFiles}

LoadedNames == {loaded[i].name : i \in DOMAIN loaded}

InitStore ==
    /\ pc = "direct"
    /\ state = <<>>
    /\ result = <<>>
    /\ executed = <<>>
    /\ last_update = <<>>
    /\ nodes_store = FHIRStore
    /\ mcp_store = FHIRStore
    /\ directory \in Listings
    /\ index = WorkflowIndex
    /\ llm_calls = <<>>
    /\ retriever_calls = <<>>
    /\ tool_calls = <<>>
    /\ all_results = <<>>
    /\ raised_in = ""
    /\ runs = 0
    /\ InitLibrary

\* store.load_bundle(path) for a file not loaded before
LoadBundle ==
    /\ pc \in {"direct", "returned", "raised"}
    /\ runs < MaxRuns
    /\ \E f \in StoreFiles :
          /\ f.name \notin LoadedNames
          /\ \E r \in {load_bundle(mcp_store, f.doc)} :
                /\ mcp_store' = r.store
                /\ loaded' = Append(loaded, [name |-> f.name, doc |-> f.doc,
                                             raised |-> r.raised])
                /\ pc' = IF r.raised THEN "raised" ELSE "returned"
    /\ executed' = <<"load_bundle">>
    /\ runs' = runs + 1
    /\ UNCHANGED <<state, result, last_update, nodes_store, directory, index, llm_calls,
                   retriever_calls, tool_calls, all_results, raised_in>>
    /\ UNCHANGED <<returned, collection, qdrant_calls, embed_calls>>

\* store.load_directory(directory), no file of it having been loaded before
LoadDirectory ==
    /\ pc \in {"direct", "returned", "raised"}
    /\ runs < MaxRuns
    /\ \A i \in DOMAIN directory : directory[i].name \notin LoadedNames
    /\ \E r \in {load_listing(mcp_store, directory)} :
          /\ mcp_store' = r.store
          /\ pc' = IF r.raised THEN "raised" ELSE "returned"
    /\ loaded' = loaded \o LoadCalls(mcp_store, PathsToLoad(directory))
    /\ executed' = <<"load_directory">>
    /\ runs' = runs + 1
    /\ UNCHANGED <<state, result, last_update, nodes_store, directory, index, llm_calls,
                   retriever_calls, tool_calls, all_results, raised_in>>
    /\ UNCHANGED <<returned, collection, qdrant_calls, embed_calls>>

NextStore == LoadBundle \/ LoadDirectory

SpecStore == InitStore /\ [][NextStore]_vars

----------------------------------------------------------------------------
(* The gateway to the language model on its own: one call of generate_json or
   of _extract_json.  llm_calls holds the requests sent to the service and
   returned the outcome of the call. *)

\* The number of tokens of a text given to _extract_json
MaxText == 5

\* The number of tokens of the content of an answer of the service
MaxContent == 2

Tokens == {Fence, "json", " ", "{", "}", "k:", "1"}

Texts == SeqsUpTo(Tokens, MaxText)

Content(text) == [raises |-> FALSE, response |-> [message |-> [content |-> text]]]

\* What the service may answer to a request: a failure, a response without
\* its message or without the content of the message, or a content
ServiceAnswers ==
    {[raises |-> TRUE, response |-> <<>>],
     [raises |-> FALSE, response |-> <<>>],
     [raises |-> FALSE, response |-> [message |-> <<>>]]}
    \cup {Content(text) : text \in SeqsUpTo(Tokens, MaxContent)}
    \cup {Content(<<"{", "k:", "{", "}", "}">>),
          Content(<<Fence, "json", " ", "{", "k:", "1", "}", " ", Fence>>)}

InitLlm ==
    /\ pc = "direct"
    /\ state = <<>>
    /\ result = <<>>
    /\ executed = <<>>
    /\ last_update = <<>>
    /\ nodes_store = FHIRStore
    /\ mcp_store = FHIRStore
    /\ directory = <<>>
    /\ index = WorkflowIndex
    /\ llm_calls = <<>>
    /\ retriever_calls = <<>>
    /\ tool_calls = <<>>
    /\ all_results = <<>>
    /\ raised_in = ""
    /\ runs = 0
    /\ InitLibrary

CallGenerateJson ==
    /\ pc = "direct"
    /\ \E first, second \in ServiceAnswers :
          \E r \in {generate_json(first, second)} :
              /\ llm_calls' = r.calls
              /\ returned' = r.outcome
              /\ pc' = IF r.outcome.raised THEN "raised" ELSE "returned"
    /\ executed' = <<"generate_json">>
    /\ UNCHANGED <<state, result, last_update, nodes_store, mcp_store, directory, index,
                   retriever_calls, tool_calls, all_results, raised_in, runs>>
    /\ UNCHANGED <<loaded, collection, qdrant_calls, embed_calls>>

CallExtractJson ==
    /\ pc = "direct"
    /\ \E text \in Texts :
          \E r \in {_extract_json(text)} :
              /\ state' = [text |-> text]
              /\ returned' = r
              /\ pc' = IF r.raised THEN "raised" ELSE "returned"
    /\ executed' = <<"_extract_json">>
    /\ UNCHANGED <<result, last_update, nodes_store, mcp_store, directory, index, llm_calls,
                   retriever_calls, tool_calls, all_results, raised_in, runs>>
    /\ UNCHANGED <<loaded, collection, qdrant_calls, embed_calls>>

NextLlm == CallGenerateJson \/ CallExtractJson

SpecLlm == InitLlm /\ [][NextLlm]_vars

----------------------------------------------------------------------------
(* The ingestion on its own: ingest_guidelines run on a guideline directory
   against a vector database that has the collection or not.  collection
   holds the collections of the client, embed_calls and qdrant_calls the calls
   of the last run to the embedding service and to the client. *)

\* The number of files in the guideline directory
MaxDocs == 2

GuidelineFile(name, suffix, splits) == [name |-> name, suffix |-> suffix, splits |-> splits]

\* The files of the guideline directory, in the order of their names
GuidelineFiles ==
    << GuidelineFile("a.txt", <<".", "t", "x", "t">>, << <<"t1">>, <<"t2">> >>),
       GuidelineFile("b.mD", <<".", "m", "D">>, << <<"t3">> >>),
       GuidelineFile("c.csv", <<".", "c", "s", "v">>, << <<"t4">> >>),
       GuidelineFile("d.pdf", <<".", "p", "d", "f">>, <<>>) >>

\* The guideline directories: the files of some positions, in their order
GuidelineDirs ==
    {SelectSeq([i \in DOMAIN GuidelineFiles |-> <<i, GuidelineFiles[i]>>],
               LAMBDA x : x[1] \in chosen) :
        chosen \in {c \in SUBSET DOMAIN GuidelineFiles : Cardinality(c) <= MaxDocs}}

FilesOf(dir) == [i \in DOMAIN dir |-> dir[i][2]]

\* A point left by an earlier ingestion of other guidelines
OldPoint(id) ==
    [id |-> id, vector |-> Embedding(<<"old">>),
     payload |-> [text |-> <<"old">>, source |-> "old.txt", chunk_index |-> id]]

\* What the vector database holds before the first run
ClientStates ==
    {<<>>,
     [clinical_guidelines |-> [size |-> EMBEDDING_DIM, distance |-> "COSINE",
                               points |-> <<>>]],
     [clinical_guidelines |-> [size |-> EMBEDDING_DIM, distance |-> "COSINE",
                               points |-> (0 :> OldPoint(0)) @@ (4 :> OldPoint(4))]],
     [clinical_guidelines |-> [size |-> 384, distance |-> "COSINE", points |-> <<>>]],
     [clinical_guidelines |-> [size |-> EMBEDDING_DIM, distance |-> "EUCLID",
                               points |-> <<>>]]}

InitIngest ==
    /\ pc = "direct"
    /\ state = <<>>
    /\ result = <<>>
    /\ executed = <<>>
    /\ last_update = <<>>
    /\ nodes_store = FHIRStore
    /\ mcp_store = FHIRStore
    /\ directory = <<>>
    /\ index = WorkflowIndex
    /\ llm_calls = <<>>
    /\ retriever_calls = <<>>
    /\ tool_calls = <<>>
    /\ all_results = <<>>
    /\ raised_in = ""
    /\ runs = 0
    /\ loaded = <<>>
    /\ returned = <<>>
    /\ collection \in ClientStates
    /\ qdrant_calls = <<>>
    /\ embed_calls = <<>>

\* ingest_guidelines(directory, client)
IngestGuidelines ==
    /\ pc \in {"direct", "returned", "raised"}
    /\ runs < MaxRuns
    /\ \E dir \in GuidelineDirs :
          \E fail_at \in 0..Len(chunk_documents(load_all_documents(FilesOf(dir)))) :
              \E r \in {ingest_guidelines(FilesOf(dir), collection, fail_at)} :
                  /\ directory' = FilesOf(dir)
                  /\ collection' = r.collections
                  /\ embed_calls' = r.embed_calls
                  /\ qdrant_calls' = r.qdrant_calls
                  /\ returned' = r.returned
                  /\ raised_in' = r.error
                  /\ pc' = IF r.raised THEN "raised" ELSE "returned"
    /\ executed' = <<"ingest_guidelines">>
    /\ runs' = runs + 1
    /\ UNCHANGED <<state, result, last_update, nodes_store, mcp_store, index, llm_calls,
                   retriever_calls, tool_calls, all_results, loaded>>

NextIngest == IngestGuidelines

SpecIngest == InitIngest /\ [][NextIngest]_vars

----------------------------------------------------------------------------
(* The interaction tool on its own: one call of
   verificar_interacao_medicamentosa on two drug names; state holds the two
   arguments, returned the text of the tool. *)

\* The number of white-space characters before and after a drug name
MaxPad == 1

\* The drug names asked about, as the table writes them
DrugNames ==
    {<<"l", "o", "s", "a", "r", "t", "a", "n", "a">>,
     <<"e", "s", "p", "i", "r", "o", "n", "o", "l", "a", "c", "t", "o", "n", "a">>,
     <<"p", "a", "r", "a", "c", "e", "t", "a", "m", "o", "l">>}

\* The name with its first letter as a capital
Capitalised(name) ==
    [i \in DOMAIN name |->
        IF i = 1 /\ \E u \in DOMAIN UpperToLower : UpperToLower[u] = name[i]
        THEN CHOOSE u \in DOMAIN UpperToLower : UpperToLower[u] = name[i]
        ELSE name[i]]

\* The name with every letter that has a capital in the model as a capital
Capitals(name) ==
    [i \in DOMAIN name |->
        IF \E u \in DOMAIN UpperToLower : UpperToLower[u] = name[i]
        THEN CHOOSE u \in DOMAIN UpperToLower : UpperToLower[u] = name[i]
        ELSE name[i]]

\* Blanks before a name, line ends after it
Pad(char) == {[i \in 1..n |-> char] : n \in 0..MaxPad}

\* The arguments of the tool: the names in three spellings, padded
DrugArguments ==
    {before \o spelled \o after :
        before \in Pad(" "), after \in Pad("\n"),
        spelled \in UNION {{name, Capitalised(name), Capitals(name)} : name \in DrugNames}}

InitInteraction ==
    /\ pc = "direct"
    /\ state = <<>>
    /\ result = <<>>
    /\ executed = <<>>
    /\ last_update = <<>>
    /\ nodes_store = FHIRStore
    /\ mcp_store = FHIRStore
    /\ directory = <<>>
    /\ index = WorkflowIndex
    /\ llm_calls = <<>>
    /\ retriever_calls = <<>>
    /\ tool_calls = <<>>
    /\ all_results = <<>>
    /\ raised_in = ""
    /\ runs = 0
    /\ InitLibrary

CallVerificarInteracao ==
    /\ pc = "direct"
    /\ \E medicamento_a, medicamento_b \in DrugArguments :
          /\ state' = [medicamento_a |-> medicamento_a, medicamento_b |-> medicamento_b]
          /\ returned' = verificar_interacao_medicamentosa(medicamento_a, medicamento_b)
          /\ tool_calls' = << <<"verificar_interacao_medicamentosa",
                                medicamento_a, medicamento_b>> >>
    /\ pc' = "returned"
    /\ executed' = <<"verificar_interacao_medicamentosa">>
    /\ UNCHANGED <<result, last_update, nodes_store, mcp_store, directory, index, llm_calls,
                   retriever_calls, all_results, raised_in, runs>>
    /\ UNCHANGED <<loaded, collection, qdrant_calls, embed_calls>>

NextInteraction == CallVerificarInteracao

SpecInteraction == InitInteraction /\ [][NextInteraction]_vars

----------------------------------------------------------------------------
(* The lazy load under concurrent first accesses: every thread runs
   _load_store on the shared store of mcp_server.py, its check and the two
   passes of each load_bundle being steps of their own.  state holds, for each
   thread, where it is, the file it loads, what its check saw and which
   threads had finished before its check. *)

\* The number of threads that access the store
MaxThreads == 2

Threads == 1..MaxThreads

Finished == {"done", "raised"}

InitRace ==
    /\ pc = "threads"
    /\ state = [t \in Threads |->
                   [pc |-> "check", file |-> 1, empty |-> FALSE, patients_seen |-> 0,
                    finished_before |-> {}]]
    /\ result = <<>>
    /\ executed = <<>>
    /\ last_update = <<>>
    /\ nodes_store = FHIRStore
    /\ mcp_store = FHIRStore
    /\ directory \in Range(Directories)
    /\ index = WorkflowIndex
    /\ llm_calls = <<>>
    /\ retriever_calls = <<>>
    /\ tool_calls = <<>>
    /\ all_results = <<>>
    /\ raised_in = ""
    /\ runs = 0
    /\ InitLibrary

RaceUnchanged ==
    UNCHANGED <<pc, result, last_update, nodes_store, directory, index, llm_calls,
                retriever_calls, tool_calls, all_results, raised_in, runs, loaded,
                returned, collection, qdrant_calls, embed_calls>>

\* if not _store.list_patients(): the thread reads the store
RaceCheck(t) ==
    /\ state[t].pc = "check"
    /\ state' = [state EXCEPT ![t] =
                    [pc |-> IF ObservedEmpty(mcp_store) /\ directory # <<>>
                            THEN "first_pass" ELSE "done",
                     file |-> 1,
                     empty |-> ObservedEmpty(mcp_store),
                     patients_seen |-> Len(list_patients(mcp_store)),
                     finished_before |-> {u \in Threads : state[u].pc \in Finished}]]
    /\ executed' = Append(executed, <<t, "check">>)
    /\ mcp_store' = mcp_store
    /\ RaceUnchanged

\* load_bundle up to the end of its first loop
RaceFirstPass(t) ==
    /\ state[t].pc = "first_pass"
    /\ LET bundle == directory[state[t].file] IN
       IF Get(bundle, "resourceType", None) # <<"Bundle">>
       THEN /\ mcp_store' = mcp_store
            /\ state' = [state EXCEPT ![t].pc = "raised"]
       ELSE \E first \in {FirstPass(mcp_store, Get(bundle, "entry", <<>>))} :
                /\ mcp_store' = first.store
                /\ state' = [state EXCEPT ![t].pc =
                                IF first.raised THEN "raised" ELSE "second_pass"]
    /\ executed' = Append(executed, <<t, "first_pass">>)
    /\ RaceUnchanged

\* The second loop of load_bundle, then the next file of load_directory
RaceSecondPass(t) ==
    /\ state[t].pc = "second_pass"
    /\ mcp_store' = SecondPass(mcp_store, Get(directory[state[t].file], "entry", <<>>))
    /\ state' = [state EXCEPT ![t].pc = IF state[t].file < Len(directory)
                                        THEN "first_pass" ELSE "done",
                               ![t].file = IF state[t].file < Len(directory)
                                          THEN state[t].file + 1 ELSE state[t].file]
    /\ executed' = Append(executed, <<t, "second_pass">>)
    /\ RaceUnchanged

NextRace == \E t \in Threads : RaceCheck(t) \/ RaceFirstPass(t) \/ RaceSecondPass(t)

SpecRace == InitRace /\ [][NextRace]_vars

----------------------------------------------------------------------------
(* Properties of the workflow *)

\* The order of a run without failure: retrieve_guidelines is in it exactly
\* when needs_retrieval is set and truthy
RunOrder(s) ==
    <<"parse_note", "decide_retrieval">>
    \o (IF "needs_retrieval" \in DOMAIN s /\ s.needs_retrieval \notin {False, None, <<>>}
        THEN <<"retrieve_guidelines">> ELSE <<>>)
    \o <<"fetch_patient_data", "generate_report", "evaluate_report">>

\* C1: in a run in which no node fails, the nodes started so far are a prefix
\* of parse_note, decide_retrieval, [retrieve_guidelines iff needs_retrieval is
\* truthy], fetch_patient_data, generate_report, evaluate_report; the node about
\* to run is the next of that order; the run is at END exactly when the whole
\* order was run, and it has then returned the state.
C1_NodeOrder ==
    (pc # "idle" /\ raised_in = "") =>
        LET order == RunOrder(state) IN
        /\ Len(executed) <= Len(order)
        /\ executed = SubSeq(order, 1, Len(executed))
        /\ IF Len(executed) < Len(order)
           THEN pc = order[Len(executed) + 1] /\ result = <<>>
           ELSE pc = "END" /\ result = state

C1_Witness ==
    /\ pc = "END"
    /\ Len(executed) = 6
    /\ state.needs_retrieval = <<"no">>

\* C2: once a node has raised, the run is over at that node: it is the last
\* node started, it was started once, invoke has raised and returned nothing.
C2_AbortOnFailure ==
    raised_in # "" =>
        /\ pc = "raised"
        /\ result = <<>>
        /\ executed # <<>>
        /\ executed[Len(executed)] = raised_in
        /\ Cardinality({i \in DOMAIN executed : executed[i] = raised_in}) = 1
        /\ \A i, j \in DOMAIN executed : executed[i] = executed[j] => i = j

C2_Witness ==
    /\ pc = "raised"
    /\ raised_in = "fetch_patient_data"
    /\ Len(executed) = 4

ResultFields ==
    {"extracted_entities", "patient_id", "needs_retrieval", "retrieval_queries",
     "guidelines", "patient_data", "report", "evaluation"}

\* C3 as stated: the state a successful run returns holds all eight result fields.
C3_AllEightFields == pc = "END" => ResultFields \subseteq DOMAIN result

\* C3 as amended: the state a successful run returns holds the seven result
\* fields other than guidelines, and holds guidelines exactly when
\* needs_retrieval is truthy.
C3_FieldsOfResult ==
    pc = "END" =>
        /\ (ResultFields \ {"guidelines"}) \subseteq DOMAIN result
        /\ ("guidelines" \in DOMAIN result) <=>
              (result.needs_retrieval \notin {False, None, <<>>})

C3_Witness ==
    /\ pc = "END"
    /\ "guidelines" \notin DOMAIN result
    /\ DOMAIN result = (ResultFields \ {"guidelines"}) \cup {"patient_note"}

\* C4: while needs_retrieval is set and falsy, retrieve_guidelines has not run
\* and guidelines is not set; the state such a run returns has no guidelines and
\* has a report.
C4_SkippedRetrieval ==
    ("needs_retrieval" \in DOMAIN state /\ state.needs_retrieval \in {False, None, <<>>}) =>
        /\ "guidelines" \notin DOMAIN state
        /\ "retrieve_guidelines" \notin Range(executed)
        /\ retriever_calls = <<>>
        /\ pc = "END" => ("guidelines" \notin DOMAIN result /\ "report" \in DOMAIN result)

C4_Witness ==
    /\ pc = "END"
    /\ result.needs_retrieval = None
    /\ result.retrieval_queries # <<>>
    /\ "report" \in DOMAIN result

\* The fields each node owns
Owns(node) ==
    CASE node = "parse_note" -> {"extracted_entities", "patient_id"}
      [] node = "decide_retrieval" -> {"needs_retrieval", "retrieval_queries"}
      [] node = "retrieve_guidelines" -> {"guidelines"}
      [] node = "fetch_patient_data" -> {"patient_data"}
      [] node = "generate_report" -> {"report"}
      [] node = "evaluate_report" -> {"evaluation"}

NodeStepKeepsOtherFields ==
    pc \in Nodes =>
        /\ DOMAIN last_update' \subseteq Owns(pc)
        /\ \A f \in (DOMAIN state \cup DOMAIN state') \ Owns(pc) :
              /\ f \in DOMAIN state
              /\ f \in DOMAIN state'
              /\ state'[f] = state[f]

\* C5: a step of a node returns an update over fields the node owns only, and
\* every other field of the running state, patient_note included, is set after
\* the step exactly when it was set before, to the same value.
C5_NodeWritesOwnFields == [][NodeStepKeepsOtherFields]_vars

C5_Witness ==
    /\ pc = "END"
    /\ DOMAIN last_update = {"evaluation"}
    /\ DOMAIN state = ResultFields \cup {"patient_note"}


----------------------------------------------------------------------------
(* Properties of parse_note *)

\* A token of the patient's lowercased name, longer than two characters, lies
\* within the lowercased text or normalized field of some entity
MentionedIn(p, entities) ==
    \E part \in Range(Split(Lower(p.name))) :
        /\ Len(part) > 2
        /\ \E i \in DOMAIN entities :
              \E f \in {"text", "normalized"} \cap DOMAIN entities[i] :
                 Contains(Lower(entities[i][f]), part)

\* C6: the patient_id parse_note returns is "" exactly when the store has no
\* patient; otherwise it is the id of the first patient, in load order, one of
\* whose name tokens longer than two characters occurs (case folded) in the text
\* or normalized field of an entity, and the id of the first patient in load
\* order when there is no such patient
C6_PatientMatch ==
    (pc = "returned" /\ executed = <<"parse_note">>) =>
        LET patients == list_patients(nodes_store)
            entities == last_update.extracted_entities
            patient_id == last_update.patient_id
            matching == {i \in DOMAIN patients : MentionedIn(patients[i], entities)}
        IN /\ (patient_id = <<>>) <=> (nodes_store._patients = <<>>)
           /\ nodes_store._patients # <<>> =>
                 /\ \E i \in DOMAIN nodes_store._patients :
                       patient_id = nodes_store._patients[i][1]
                 /\ matching # {} =>
                       \E i \in matching :
                          /\ patient_id = patients[i].id
                          /\ \A j \in matching : i <= j
                 /\ matching = {} => patient_id = nodes_store._patients[1][1]

\* parse_note returned the second patient of the store, whose name an entity
\* mentions, the first patient's name being mentioned by none
C6_Witness ==
    /\ pc = "returned" /\ executed = <<"parse_note">>
    /\ Len(nodes_store._patients) = 2
    /\ nodes_store._patients[1][1] # nodes_store._patients[2][1]
    /\ last_update.patient_id = nodes_store._patients[2][1]
    /\ ~MentionedIn(list_patients(nodes_store)[1], last_update.extracted_entities)


----------------------------------------------------------------------------
(* Properties of retrieve_guidelines *)

\* retrieve_guidelines returned from a call with a non-empty query list
Retrieved ==
    /\ pc = "returned" /\ executed = <<"retrieve_guidelines">>
    /\ NonEmpty(Get(state, "retrieval_queries", <<>>))

\* Everything the retrieve calls returned, in the order it was returned
Returned ==
    LET F[n \in 0..Len(retriever_calls)] ==
            IF n = 0 THEN <<>> ELSE F[n - 1] \o retriever_calls[n].results
    IN F[Len(retriever_calls)]

\* The entries of a formatted guidelines block: source, score and text as the
\* block shows them
BlockEntries(block) ==
    IF block = NoRelevantGuideline THEN <<>>
    ELSE [i \in 1..((Len(block) + 1) \div 7) |->
             [source |-> block[7 * (i - 1) + 2],
              score |-> block[7 * (i - 1) + 4],
              text |-> block[7 * (i - 1) + 6]]]

\* The number a formatted score shows, in hundredths
ScoreValue(shown) == CHOOSE h \in 0..100 : FormatScore(10 * h) = shown

\* The first result returned, over all queries in list order, with this text
FirstReturned(text) ==
    Returned[CHOOSE k \in DOMAIN Returned :
                /\ Returned[k].text = text
                /\ \A j \in DOMAIN Returned : Returned[j].text = text => k <= j]

\* C7: the merged results hold each returned text once, and the entry kept for
\* a text is the first one returned with it, queries taken in list order; the
\* same holds of the entries of the formatted block
C7_FirstOccurrenceWins ==
    Retrieved =>
        LET queries == state.retrieval_queries
            shown == BlockEntries(last_update.guidelines)
        IN /\ Len(retriever_calls) = Len(queries)
           /\ \A i \in DOMAIN queries : retriever_calls[i].query = queries[i]
           /\ \A i, j \in DOMAIN all_results :
                 all_results[i].text = all_results[j].text => i = j
           /\ \A i \in DOMAIN all_results :
                 all_results[i] = FirstReturned(all_results[i].text)
           /\ \A k \in DOMAIN Returned :
                 \E i \in DOMAIN all_results : all_results[i].text = Returned[k].text
           /\ \A i, j \in DOMAIN shown : shown[i].text = shown[j].text => i = j
           /\ \A i \in DOMAIN shown :
                 LET first == FirstReturned(<<shown[i].text>>) IN
                 /\ <<shown[i].source>> = first.source
                 /\ shown[i].score = FormatScore(first.score)

\* Two queries returned the same text with different scores and sources, the
\* second of them the better score
C7_Witness ==
    /\ Retrieved
    /\ \E j, k \in DOMAIN Returned :
          /\ j < k
          /\ Returned[j].text = Returned[k].text
          /\ Returned[j].score < Returned[k].score
          /\ Returned[j].source # Returned[k].source
          /\ \E i \in DOMAIN BlockEntries(last_update.guidelines) :
                <<BlockEntries(last_update.guidelines)[i].text>> = Returned[j].text

\* C8: the formatted block holds at most 5 entries, in non-increasing score
\* order; they are merged results, as many as there are up to 5, and no merged
\* result left out has a score greater than one that is shown
C8_TopFiveByScore ==
    Retrieved =>
        LET shown == BlockEntries(last_update.guidelines)
            Kept(m) == \E i \in DOMAIN shown : <<shown[i].text>> = m.text
        IN /\ Len(shown) <= 5
           /\ Len(shown) = Min(5, Len(all_results))
           /\ \A i, j \in DOMAIN shown :
                 i < j => ScoreValue(shown[i].score) >= ScoreValue(shown[j].score)
           /\ \A i \in DOMAIN shown :
                 \E m \in Range(all_results) :
                    /\ m.text = <<shown[i].text>>
                    /\ m.source = <<shown[i].source>>
                    /\ FormatScore(m.score) = shown[i].score
           /\ \A m, d \in Range(all_results) :
                 (Kept(m) /\ ~Kept(d)) => d.score <= m.score

\* Six texts were merged, not in score order, and one was left out
C8_Witness ==
    /\ Retrieved
    /\ Len(all_results) = 6
    /\ Len(BlockEntries(last_update.guidelines)) = 5
    /\ \E i \in 1..5 : all_results[i].score < all_results[i + 1].score

\* C9: retrieve_guidelines called with retrieval_queries absent or empty
\* returns the fixed text as guidelines and nothing else, does not raise and
\* makes no retrieve call, needs_retrieval being true or not
C9_NoQueries ==
    (executed = <<"retrieve_guidelines">>
       /\ ~NonEmpty(Get(state, "retrieval_queries", <<>>))) =>
        /\ pc = "returned"
        /\ raised_in = ""
        /\ last_update = [guidelines |-> NoGuidelineQuery]
        /\ retriever_calls = <<>>

\* retrieve_guidelines returned from a call without retrieval_queries and with
\* a true needs_retrieval
C9_Witness ==
    /\ pc = "returned" /\ executed = <<"retrieve_guidelines">>
    /\ "retrieval_queries" \notin DOMAIN state
    /\ Get(state, "needs_retrieval", False) = True
    /\ last_update.guidelines = NoGuidelineQuery


----------------------------------------------------------------------------
(* Properties of fetch_patient_data *)

\* What a call of fetch_patient_data leaves, given the store it found
FetchOutcome(store_before) ==
    LET patient_id == Get(state, "patient_id", <<>>) IN
    IF patient_id = <<>>
    THEN /\ pc = "returned"
         /\ last_update = [patient_data |-> PatientNotIdentified]
         /\ tool_calls = <<>>
         /\ mcp_store = store_before
    ELSE pc = "returned" =>
            /\ last_update =
                  [patient_data |->
                      consultar_paciente(mcp_store, patient_id) \o <<"\n\n">>
                      \o consultar_condicoes(mcp_store, patient_id) \o <<"\n\n">>
                      \o consultar_medicamentos(mcp_store, patient_id) \o <<"\n\n">>
                      \o consultar_sinais_vitais(mcp_store, patient_id)]
            /\ Cardinality({i \in DOMAIN last_update.patient_data :
                                last_update.patient_data[i] = "\n\n"}) = 3
            /\ tool_calls =
                  << <<"consultar_paciente", patient_id>>,
                     <<"consultar_condicoes", patient_id>>,
                     <<"consultar_medicamentos", patient_id>>,
                     <<"consultar_sinais_vitais", patient_id>> >>

FetchStepOutcome == (executed' = <<"fetch_patient_data">>) => FetchOutcome(mcp_store)'

\* C10: a call of fetch_patient_data with patient_id absent or empty returns
\* the fixed text as patient_data, calls no tool and leaves the record store as
\* it is; a call with a non-empty patient_id that returns has called the four
\* tools in the order demographics, conditions, medications, vital observations
\* and returns their four texts in that order with a blank line between them
C10_PatientData == [][FetchStepOutcome]_vars

\* fetch_patient_data returned the four sections of a patient with a
\* condition and a medication on file
C10_Witness ==
    /\ pc = "returned" /\ executed = <<"fetch_patient_data">>
    /\ Get(state, "patient_id", <<>>) = <<"p1">>
    /\ Len(tool_calls) = 4
    /\ \E i, j \in DOMAIN last_update.patient_data :
          /\ i < j
          /\ last_update.patient_data[i] = "HAS"
          /\ last_update.patient_data[j] = "Losartana"


----------------------------------------------------------------------------
(* Properties of evaluate_report *)

\* C11: a call of evaluate_report with report absent or empty returns the fixed
\* evaluation, whose overall score is 0, and calls no language model; a call
\* with a non-empty report calls the evaluation service once, with the report,
\* and when that returns the update holds what it returned, unchanged
C11_EvaluateReport ==
    (executed = <<"evaluate_report">>) =>
        IF "report" \notin DOMAIN state \/ state.report = <<>>
        THEN /\ pc = "returned"
             /\ DOMAIN last_update = {"evaluation"}
             /\ last_update.evaluation = NoReportEvaluation
             /\ last_update.evaluation.overall.score = 0
             /\ llm_calls = <<>>
        ELSE /\ Len(llm_calls) = 1
             /\ llm_calls[1].fn = "evaluate_report"
             /\ llm_calls[1].args = <<state.report>>
             /\ pc = "returned" =>
                   last_update = [evaluation |-> llm_calls[1].returned]

\* evaluate_report returned, for a non-empty report, an evaluation without an
\* overall score, as the service gave it
C11_Witness ==
    /\ pc = "returned" /\ executed = <<"evaluate_report">>
    /\ NonEmpty(Get(state, "report", <<>>))
    /\ Len(llm_calls) = 1
    /\ "overall" \notin DOMAIN last_update.evaluation


\* C12: the evaluation of the state a successful run returns has an overall
\* score, an integer from 0 to 5
C12_ScoreInRange ==
    pc = "END" =>
        /\ "overall" \in DOMAIN result.evaluation
        /\ "score" \in DOMAIN result.evaluation.overall
        /\ result.evaluation.overall.score \in 0..5


----------------------------------------------------------------------------
(* Absent and empty optional fields *)

\* The optional upstream fields a node reads
OptionalFields(node) ==
    CASE node = "retrieve_guidelines" -> {"retrieval_queries"}
      [] node = "fetch_patient_data" -> {"patient_id"}
      [] node = "generate_report" -> {"patient_data", "guidelines"}
      [] node = "evaluate_report" -> {"report"}
      [] OTHER -> {}

\* The external calls of the last node call, without what they returned
ExternalCalls(llm, retriever, tools) ==
    <<[i \in DOMAIN llm |-> [fn |-> llm[i].fn, args |-> llm[i].args]], retriever, tools>>

\* What the language model returned to the last node call
Answers(llm) == [i \in DOMAIN llm |-> Get(llm[i], "returned", <<>>)]

\* A node returned for a state without the field f, and the next call of it,
\* for the same state with f empty, returned as well
TwinCalls(f) ==
    /\ executed' = executed
    /\ pc = "returned" /\ pc' = "returned"
    /\ f \notin DOMAIN state
    /\ state' = Put(state, f, <<>>)

SameForAbsentAndEmpty ==
    \A node \in Nodes : \A f \in OptionalFields(node) :
        (executed = <<node>> /\ TwinCalls(f)) =>
            /\ ExternalCalls(llm_calls', retriever_calls', tool_calls')
                  = ExternalCalls(llm_calls, retriever_calls, tool_calls)
            /\ Answers(llm_calls') = Answers(llm_calls) => last_update' = last_update

\* C13: a node called for a state with an optional field absent and then for
\* the same state with that field empty makes the same external calls with the
\* same arguments and, the services answering the same, returns the same update
C13_AbsentAsEmpty == [][SameForAbsentAndEmpty]_vars

----------------------------------------------------------------------------
(* The record store *)

IsPatientEntry(entry) ==
    Get(Get(entry, "resource", <<>>), "resourceType", None) = <<"Patient">>

IsBundle(doc) == Get(doc, "resourceType", None) = <<"Bundle">>

EntriesOf(doc) == IF IsBundle(doc) THEN Get(doc, "entry", <<>>) ELSE <<>>

\* The positions of the Patient entries of a document that have no id
WithoutId(doc) ==
    {i \in DOMAIN EntriesOf(doc) :
        IsPatientEntry(EntriesOf(doc)[i]) /\ "id" \notin DOMAIN EntriesOf(doc)[i].resource}

\* The Patient entries a load of the document registers, in their order: all
\* of them, or those before the first one without an id
RegisteredBy(doc) ==
    LET es == EntriesOf(doc)
        n == IF WithoutId(doc) = {} THEN Len(es)
             ELSE (CHOOSE i \in WithoutId(doc) : \A j \in WithoutId(doc) : i <= j) - 1
    IN SelectSeq(SubSeq(es, 1, n), IsPatientEntry)

\* The Patient entries registered by the first k loads, in their order
RECURSIVE RegisteredUpTo(_)
RegisteredUpTo(k) ==
    IF k = 0 THEN <<>> ELSE RegisteredUpTo(k - 1) \o RegisteredBy(loaded[k].doc)

\* The patient a reference names once the first k loads have registered their
\* patients: the latest patient registered under it as a fullUrl or as
\* Patient/<id>, else the id written in a Patient/<id> reference
NamedBy(ref, k) ==
    LET regs == RegisteredUpTo(k)
        under == {i \in DOMAIN regs :
                    \/ Get(regs[i], "fullUrl", <<>>) = ref
                    \/ <<"Patient/">> \o regs[i].resource.id = ref}
    IN IF under # {} THEN regs[CHOOSE i \in under : \A j \in under : j <= i].resource.id
       ELSE IF Head(ref) = "Patient/" THEN Tail(ref)
       ELSE None

KnownAfter(k) == {RegisteredUpTo(k)[i].resource.id : i \in DOMAIN RegisteredUpTo(k)}

\* The known patient the subject of a resource of the k-th load resolves to,
\* None when the subject is missing or resolves to no known patient
SubjectOf(resource, k) ==
    LET ref == Get(Get(resource, "subject", <<>>), "reference", <<>>) IN
    IF ref = <<>> THEN None
    ELSE IF NamedBy(ref, k) \in KnownAfter(k) THEN NamedBy(ref, k)
    ELSE None

\* How often a resource stands in the index of a patient for a resource type
TimesIndexed(resource, patient_id, res_type) ==
    LET rs == get_resources(mcp_store, patient_id, res_type) IN
    Cardinality({i \in DOMAIN rs : rs[i] = resource})

IndexedSomewhere(resource, patient_id) ==
    \E t \in DOMAIN Get(mcp_store._patient_index, patient_id, <<>>) :
        TimesIndexed(resource, patient_id, t) > 0

\* C14: after any loads, every non-patient resource of a loaded bundle whose
\* subject resolves to a known patient stands exactly once in the index of that
\* patient for its type and in no other index; a resource whose subject is
\* missing or resolves to no known patient stands in no index; and a load
\* fails only for a document that is no bundle or has a patient without id.
C14_IndexedOnce ==
    \A k \in DOMAIN loaded :
        /\ loaded[k].raised => ~IsBundle(loaded[k].doc) \/ WithoutId(loaded[k].doc) # {}
        /\ ~loaded[k].raised =>
              \A i \in DOMAIN EntriesOf(loaded[k].doc) :
                  LET e == EntriesOf(loaded[k].doc)[i]
                      r == e.resource
                  IN ~IsPatientEntry(e) =>
                        /\ SubjectOf(r, k) # None =>
                              /\ TimesIndexed(r, SubjectOf(r, k), r.resourceType) = 1
                              /\ \A t \in DOMAIN mcp_store._patient_index[SubjectOf(r, k)] :
                                    t # r.resourceType
                                        => TimesIndexed(r, SubjectOf(r, k), t) = 0
                        /\ \A q \in DOMAIN mcp_store._patient_index :
                              q # SubjectOf(r, k) => ~IndexedSomewhere(r, q)

\* Both bundles are loaded, the one with the resources of another bundle's
\* patient and of nobody after the one without subject on a resource
C14_Witness ==
    /\ \E j, k \in DOMAIN loaded :
          /\ j < k
          /\ loaded[j].doc = BundleJoao /\ ~loaded[j].raised
          /\ loaded[k].doc = BundleCross /\ ~loaded[k].raised
    /\ Len(get_resources(mcp_store, <<"p1">>, <<"Observation">>)) = 1
    /\ Len(get_resources(mcp_store, <<"p0">>, <<"Observation">>)) = 1
    /\ get_resources(mcp_store, <<"p0">>, <<"Condition">>) = <<>>

\* A step that is one call of load_bundle
LoadBundleStep == runs' = runs + 1 /\ executed' = <<"load_bundle">>

LoadBundleOutcome ==
    LoadBundleStep =>
        LET call == loaded'[Len(loaded')] IN
        /\ loaded' = Append(loaded, call)
        /\ ~IsBundle(call.doc) =>
              /\ call.raised /\ pc' = "raised"
              /\ mcp_store'._patients = mcp_store._patients
              /\ mcp_store'._patient_index = mcp_store._patient_index
              /\ mcp_store'._ref_to_patient_id = mcp_store._ref_to_patient_id
        /\ (IsBundle(call.doc) /\ Get(call.doc, "entry", <<>>) = <<>>) =>
              /\ ~call.raised /\ pc' = "returned"
              /\ list_patients(mcp_store') = list_patients(mcp_store)

\* C15: a call of load_bundle on a document whose resourceType is not Bundle
\* raises and leaves the patients, the per-patient index and the reference map
\* of the store as they were; a call on a bundle without entries returns and
\* leaves the list of patients as it was.
C15_NonBundleAndEmptyBundle == [][LoadBundleOutcome]_vars

\* A document that is no bundle has been rejected by a store that holds a patient
C15_Witness ==
    /\ executed = <<"load_bundle">>
    /\ pc = "raised"
    /\ Len(loaded) = 2
    /\ loaded[2].doc = NotABundle /\ loaded[2].raised
    /\ ~loaded[1].raised
    /\ Len(list_patients(mcp_store)) = 1

\* A step that is one call of load_directory
LoadDirectoryStep == runs' = runs + 1 /\ executed' = <<"load_directory">>

\* a comes before b in the lexicographic order of file names
NameBefore(a, b) ==
    \E k \in 1..Len(b) :
        /\ k <= Len(a) + 1
        /\ SubSeq(a, 1, k - 1) = SubSeq(b, 1, k - 1)
        /\ k <= Len(a) => CodePoint[a[k]] < CodePoint[b[k]]

\* The bundle files of the directory: its *.json files, the files of a
\* metadata directory left out
BundleFiles ==
    {directory[i] : i \in {j \in DOMAIN directory :
        /\ SubSeq(directory[j].name, Len(directory[j].name) - 1, Len(directory[j].name))
              = <<".", "json">>
        /\ directory[j].parent # "metadata"}}

IsPrefix(s, t) == Len(s) <= Len(t) /\ SubSeq(t, 1, Len(s)) = s

\* The ids in the order of their first occurrence
RECURSIVE FirstOccurrences(_)
FirstOccurrences(ids) ==
    IF ids = <<>> THEN <<>>
    ELSE LET before == FirstOccurrences(SubSeq(ids, 1, Len(ids) - 1))
             id == ids[Len(ids)]
         IN IF \E i \in DOMAIN before : before[i] = id THEN before
            ELSE Append(before, id)

\* The patients are listed in the order in which the loads first registered
\* their ids
PatientsInRegistrationOrder ==
    LET regs == RegisteredUpTo(Len(loaded)) IN
    [i \in DOMAIN list_patients(mcp_store) |-> list_patients(mcp_store)[i].id]
        = FirstOccurrences([i \in DOMAIN regs |-> regs[i].resource.id])

LoadDirectoryOutcome ==
    LoadDirectoryStep =>
        LET n == Len(loaded') - Len(loaded)
            new == [i \in 1..n |-> loaded'[Len(loaded) + i]]
        IN
        /\ n >= 0 /\ IsPrefix(loaded, loaded')
        /\ \A i \in 1..n :
              /\ \E f \in BundleFiles : f.name = new[i].name /\ f.doc = new[i].doc
              /\ \A j \in 1..n : i < j => NameBefore(new[i].name, new[j].name)
              /\ new[i].raised => i = n
        /\ \A f \in BundleFiles :
              (\A i \in 1..n : new[i].name # f.name)
                  => n > 0 /\ new[n].raised /\ NameBefore(new[n].name, f.name)
        /\ pc' = IF n > 0 /\ new[n].raised THEN "raised" ELSE "returned"
        /\ IsPrefix(Keys(mcp_store._patients), Keys(mcp_store'._patients))
        /\ DOMAIN mcp_store._ref_to_patient_id \subseteq DOMAIN mcp_store'._ref_to_patient_id
        /\ \A p \in DOMAIN mcp_store._patient_index :
              /\ p \in DOMAIN mcp_store'._patient_index
              /\ \A t \in DOMAIN mcp_store._patient_index[p] :
                    IsPrefix(mcp_store._patient_index[p][t],
                             get_resources(mcp_store', p, t))

\* C16: a call of load_directory calls load_bundle on the *.json files of the
\* directory in increasing lexicographic order of their names, up to the first
\* call that raises; it keeps every patient, reference and indexed resource
\* the store held before; and list_patients always gives the patients in the
\* order in which the loads first registered their ids.
C16_LoadDirectoryOrder == [][LoadDirectoryOutcome]_vars /\ []PatientsInRegistrationOrder

\* The directory lists p10.json before p1-x.json, load_directory has loaded
\* p1-x.json first, into a store that held p1, and p0 of both files is listed
\* once, after p1
C16_Witness ==
    /\ executed = <<"load_directory">>
    /\ pc = "returned"
    /\ Len(directory) = 2
    /\ directory[1].name = <<"p", "1", "0", ".", "json">>
    /\ Len(loaded) = 3
    /\ loaded[2].name = <<"p", "1", "-", "x", ".", "json">>
    /\ loaded[3].name = directory[1].name
    /\ Keys(mcp_store._patients) = << <<"p1">>, <<"p0">> >>

----------------------------------------------------------------------------
(* The process-wide stores *)

\* What a step may do to a process-wide store: nothing, or load the directory
\* into the store as FHIRStore() made it; a store that lists a patient stays
StoreKept(store_before, store_after) ==
    /\ NonEmpty(list_patients(store_before)) =>
          /\ store_after._patients = store_before._patients
          /\ store_after._patient_index = store_before._patient_index
          /\ store_after._ref_to_patient_id = store_before._ref_to_patient_id
    /\ store_after # store_before =>
          /\ store_before = FHIRStore
          /\ store_after = load_directory(FHIRStore, directory).store

StoresKept ==
    /\ StoreKept(nodes_store, nodes_store')
    /\ StoreKept(mcp_store, mcp_store')
    /\ directory' = directory

\* C17: over any number of workflow runs, the store of nodes.py and the store
\* of mcp_server.py each change at most once, from the empty store to the
\* loaded directory, and a store that lists a patient is never changed again.
C17_PopulatedOnce == [][StoresKept]_vars

\* A second run has passed both lazy loads on stores the first run populated
C17_Witness ==
    /\ runs = 2
    /\ pc = "END"
    /\ nodes_store = load_directory(FHIRStore, directory).store
    /\ mcp_store = nodes_store
    /\ Len(list_patients(nodes_store)) = 2
    /\ tool_calls # <<>>

----------------------------------------------------------------------------
(* The gateway to the language model *)

\* The answer to a request holds a content that parses as JSON
Parses(answer) ==
    /\ ~answer.raises
    /\ HasContent(answer)
    /\ ~json_loads(answer.response.message.content).raised

\* C18: a call of generate_json sends one request in the JSON format first
\* and, if the content of the answer parses, returns the parsed content
\* without a further request; it sends a second request, without a format,
\* exactly when the service answered the first one and the answer did not
\* parse, and then returns what _extract_json makes of the second content;
\* it sends no third request and no request twice.
C18_AtMostTwoRequests ==
    (executed = <<"generate_json">>) =>
        /\ Len(llm_calls) \in {1, 2}
        /\ llm_calls[1].fn = "ollama.chat" /\ llm_calls[1].format = "json"
        /\ Parses(llm_calls[1].answer) =>
              /\ Len(llm_calls) = 1
              /\ pc = "returned"
              /\ returned.value = json_loads(llm_calls[1].answer.response.message.content).value
        /\ Len(llm_calls) = 2 <=> ~llm_calls[1].answer.raises /\ ~Parses(llm_calls[1].answer)
        /\ Len(llm_calls) = 2 =>
              /\ llm_calls[2].fn = "ollama.chat" /\ llm_calls[2].format = ""
              /\ [llm_calls[2] EXCEPT !.answer = <<>>] # [llm_calls[1] EXCEPT !.answer = <<>>]
              /\ pc = "returned" =>
                    /\ HasContent(llm_calls[2].answer)
                    /\ returned = _extract_json(llm_calls[2].answer.response.message.content)

\* The first answer was a word, the second one a fenced object, which the
\* call returned
C18_Witness ==
    /\ executed = <<"generate_json">>
    /\ pc = "returned"
    /\ Len(llm_calls) = 2
    /\ llm_calls[1].answer = Content(<<"json">>)
    /\ llm_calls[2].answer
          = Content(<<Fence, "json", " ", "{", "k:", "1", "}", " ", Fence>>)
    /\ returned.value = <<"{", "k:", "1", "}">>

AllSpace(text) == \A i \in DOMAIN text : IsSpace(text[i])

\* The tokens from position s to position e are a JSON object
ObjectAt(text, s, e) ==
    /\ s < e
    /\ text[s] = "{" /\ text[e] = "}"
    /\ ~json_loads(SubSeq(text, s, e)).raised

\* The JSON objects the text holds somewhere
EmbeddedObjects(text) ==
    {json_loads(SubSeq(text, se[1], se[2])).value :
        se \in {x \in (DOMAIN text) \X (DOMAIN text) : ObjectAt(text, x[1], x[2])}}

\* The JSON objects the text holds in a fenced code block: between a fence,
\* with the word json or without it, and the next fence, white space around
\* the object
FencedObjects(text) ==
    {json_loads(SubSeq(text, se[1], se[2])).value :
        se \in {x \in (DOMAIN text) \X (DOMAIN text) :
                  /\ ObjectAt(text, x[1], x[2])
                  /\ \E i \in 1..(x[1] - 1) :
                        /\ text[i] = Fence
                        /\ \/ AllSpace(SubSeq(text, i + 1, x[1] - 1))
                           \/ /\ i + 1 < x[1] /\ text[i + 1] = "json"
                              /\ AllSpace(SubSeq(text, i + 2, x[1] - 1))
                  /\ \E j \in (x[2] + 1)..Len(text) :
                        /\ text[j] = Fence
                        /\ AllSpace(SubSeq(text, x[2] + 1, j - 1))}}

\* The text has an opening brace with a closing brace after it
JsonShaped(text) == \E s, e \in DOMAIN text : s < e /\ text[s] = "{" /\ text[e] = "}"

\* C19: _extract_json returns a JSON object held in a fenced code block when
\* the text has one; otherwise it returns a JSON object held in the text when
\* the text has one; otherwise it raises, and when the text has no opening
\* brace with a closing brace after it, the error is the ValueError with the
\* first 200 characters of the text.
C19_ExtractJson ==
    (executed = <<"_extract_json">>) =>
        IF FencedObjects(state.text) # {}
        THEN pc = "returned" /\ returned.value \in FencedObjects(state.text)
        ELSE IF EmbeddedObjects(state.text) # {}
        THEN pc = "returned" /\ returned.value \in EmbeddedObjects(state.text)
        ELSE /\ pc = "raised"
             /\ ~JsonShaped(state.text) =>
                   /\ returned.error = "ValueError"
                   /\ returned.value
                         = SubSeq(Flatten(state.text), 1,
                                  Min(PrefixLen, Len(Flatten(state.text))))

----------------------------------------------------------------------------
(* The ingestion *)

\* A step that is one run of ingest_guidelines
IngestStep == runs' = runs + 1 /\ executed' = <<"ingest_guidelines">>

NoPartialCommit ==
    (IngestStep /\ \E i \in DOMAIN embed_calls' : embed_calls'[i].raised) =>
        /\ pc' = "raised"
        /\ collection' = collection
        /\ qdrant_calls' = <<>>

\* C20: a run of ingest_guidelines in which a call of the embedding service
\* raises ends with that exception, makes no call to the client of the vector
\* database and leaves its collections and their points as they were, whatever
\* the number of chunks embedded before the failing one.
C20_NoPartialCommit == [][NoPartialCommit]_vars

\* The embedding of the third chunk failed after two chunks were embedded, and
\* the database still has no collection
C20_Witness ==
    /\ executed = <<"ingest_guidelines">>
    /\ pc = "raised"
    /\ Len(embed_calls) = 3
    /\ embed_calls[3].raised /\ ~embed_calls[1].raised /\ ~embed_calls[2].raised
    /\ qdrant_calls = <<>>
    /\ collection = <<>>

\* The points the destination collection holds, by id
PointsOf(collections) ==
    IF QdrantCollection \in DOMAIN collections THEN collections[QdrantCollection].points
    ELSE <<>>

\* A run of ingest_guidelines that returned
StoredBatch ==
    (IngestStep /\ pc' = "returned") =>
        LET n == Len(embed_calls')
            upsert == qdrant_calls'[Len(qdrant_calls')]
            old == PointsOf(collection)
            new == PointsOf(collection')
            k == Cardinality(DOMAIN old)
        IN
        /\ returned' = n
        /\ upsert[1] = "upsert" /\ Len(upsert[3]) = n
        /\ \A i \in 1..n :
              /\ upsert[3][i].id = i - 1
              /\ upsert[3][i].payload.text = embed_calls'[i].text
        /\ DOMAIN new = DOMAIN old \cup 0..(n - 1)
        /\ \A id \in 0..(n - 1) : new[id] = upsert[3][id + 1]
        /\ \A id \in DOMAIN old : id >= n => new[id] = old[id]
        /\ DOMAIN old = 0..(k - 1) =>
              Cardinality(DOMAIN new) = IF k > n THEN k ELSE n

\* C21: a run that stores a batch of n chunks upserts them as the points
\* 0..n-1 in the order of the batch and returns n; in the collection the
\* points 0..n-1 are then those of the batch and every earlier point with a
\* larger id is as it was, so a collection that held the points 0..k-1 of an
\* earlier batch holds max(k, n) points.
C21_SequentialIds == [][StoredBatch]_vars

\* A batch of one chunk was stored after a batch of three: point 0 is the new
\* chunk, the points 1 and 2 are those of the first batch
C21_Witness ==
    /\ runs = 2
    /\ pc = "returned"
    /\ returned = 1
    /\ DOMAIN PointsOf(collection) = 0..2
    /\ PointsOf(collection)[0].payload.text = <<"t3">>
    /\ PointsOf(collection)[1].payload.text = <<"t2">>
    /\ PointsOf(collection)[2].payload.text = <<"t3">>

----------------------------------------------------------------------------
(* The interaction tool *)

\* The verdict a text of the tool gives: the description of the interaction,
\* or None
Verdict(text) ==
    IF Head(text) = InteractionFound THEN <<text[Len(text)]>> ELSE None

\* Two characters that are one letter in either case, or the same character
SameLetter(c, d) ==
    \/ c = d
    \/ \E u \in DOMAIN UpperToLower :
          {c, d} \subseteq {u, UpperToLower[u]}

\* The number of white-space characters a name starts with and ends with
Leading(name) ==
    Cardinality({i \in DOMAIN name : \A j \in 1..i : name[j] \in Whitespace})

Trailing(name) ==
    Cardinality({i \in DOMAIN name : \A j \in i..Len(name) : name[j] \in Whitespace})

\* The name between its first and its last character that is no white space
Core(name) ==
    IF Leading(name) = Len(name) THEN <<>>
    ELSE SubSeq(name, Leading(name) + 1, Len(name) - Trailing(name))

\* Two names that differ in letter case and surrounding white space only
SameDrug(x, y) ==
    LET cx == Core(x)
        cy == Core(y)
    IN /\ Len(cx) = Len(cy)
       /\ \A i \in DOMAIN cx : SameLetter(cx[i], cy[i])

\* C22: the verdict of a call on (A, B) is the verdict of the call on (B, A)
\* and of every call on names that differ from A and from B in letter case
\* and in leading or trailing white space only.
C22_SymmetricLookup ==
    (executed = <<"verificar_interacao_medicamentosa">>) =>
        /\ Verdict(verificar_interacao_medicamentosa(state.medicamento_b,
                                                     state.medicamento_a))
              = Verdict(returned)
        /\ \A x \in DrugArguments :
              /\ SameDrug(x, state.medicamento_a) =>
                    Verdict(verificar_interacao_medicamentosa(x, state.medicamento_b))
                        = Verdict(returned)
              /\ SameDrug(x, state.medicamento_b) =>
                    Verdict(verificar_interacao_medicamentosa(state.medicamento_a, x))
                        = Verdict(returned)

\* The interaction of losartana and espironolactona was found for names in
\* capitals, the second one padded
C22_Witness ==
    /\ executed = <<"verificar_interacao_medicamentosa">>
    /\ state.medicamento_a = Capitals(<<"e", "s", "p", "i", "r", "o", "n", "o", "l", "a", "c", "t", "o", "n", "a">>)
    /\ state.medicamento_b = <<" ">> \o Capitals(<<"l", "o", "s", "a", "r", "t", "a", "n", "a">>) \o <<"\n">>
    /\ Verdict(returned) # None

----------------------------------------------------------------------------
(* The destination collection *)

\* C26: after a run whose store step returned, the destination collection
\* exists with EMBEDDING_DIM as vector size and the cosine distance, whether
\* the collection existed before the run or not; and the run has asked the
\* client to create a collection at most once.
C26_CollectionShape ==
    (executed = <<"ingest_guidelines">> /\ pc = "returned") =>
        /\ QdrantCollection \in DOMAIN collection
        /\ collection[QdrantCollection].size = EMBEDDING_DIM
        /\ collection[QdrantCollection].distance = "COSINE"
        /\ Cardinality({i \in DOMAIN qdrant_calls :
                           qdrant_calls[i][1] = "create_collection"}) <= 1

----------------------------------------------------------------------------
(* The unfenced search of _extract_json *)

\* The opening braces minus the closing braces of the tokens s..e
Depth(text, s, e) ==
    Cardinality({i \in s..e : text[i] = "{"}) - Cardinality({i \in s..e : text[i] = "}"})

\* The first opening brace of the text, 0 when it has none
FirstOpen(text) ==
    IF \E i \in DOMAIN text : text[i] = "{"
    THEN CHOOSE i \in DOMAIN text :
            text[i] = "{" /\ \A j \in 1..(i - 1) : text[j] # "{"
    ELSE 0

\* The closing brace that matches the first opening brace, 0 when none does
FirstClose(text) ==
    LET s == FirstOpen(text)
        ends == {e \in DOMAIN text : s > 0 /\ e > s /\ Depth(text, s, e) = 0}
    IN IF ends = {} THEN 0 ELSE CHOOSE e \in ends : \A f \in ends : e <= f

\* C25: when the text has no fence and its first top-level brace span is a
\* JSON object, _extract_json returns that object, whatever follows it.
C25_FirstTopLevelSpan ==
    (/\ executed = <<"_extract_json">>
     /\ \A i \in DOMAIN state.text : state.text[i] # Fence
     /\ FirstClose(state.text) > 0
     /\ ObjectAt(state.text, FirstOpen(state.text), FirstClose(state.text)))
        => /\ pc = "returned"
           /\ returned.value
                 = json_loads(SubSeq(state.text, FirstOpen(state.text),
                                     FirstClose(state.text))).value

----------------------------------------------------------------------------
(* The record store over its lifetime *)

PatientIds(store) == {store._patients[i][1] : i \in DOMAIN store._patients}

NothingRemoved ==
    /\ DOMAIN mcp_store._ref_to_patient_id \subseteq DOMAIN mcp_store'._ref_to_patient_id
    /\ PatientIds(mcp_store) \subseteq PatientIds(mcp_store')

\* C24: no call of load_bundle or load_directory, failing or not, removes a
\* reference string from the reference map or a patient from the registered
\* patients.
C24_AppendOnly == [][NothingRemoved]_vars

\* A second bundle has been loaded, and the references and the patient of the
\* first are still there beside those of the second
C24_Witness ==
    /\ Len(loaded) = 2
    /\ loaded[1].doc = BundleJoao /\ ~loaded[1].raised
    /\ loaded[2].doc = BundleCross /\ ~loaded[2].raised
    /\ <<"Patient/", "p1">> \in DOMAIN mcp_store._ref_to_patient_id
    /\ <<"urn:uuid:", "u0">> \in DOMAIN mcp_store._ref_to_patient_id
    /\ PatientIds(mcp_store) = {<<"p1">>, <<"p0">>}

\* C27: after any calls of load_bundle and load_directory, failing ones
\* included, the patient ids with a per-patient index are the registered
\* patient ids, every value of the reference map is a registered patient id,
\* and every resource held under a resource type in an index has that
\* resource type, which is never Patient.
C27_StoreConsistent ==
    /\ DOMAIN mcp_store._patient_index = PatientIds(mcp_store)
    /\ \A ref \in DOMAIN mcp_store._ref_to_patient_id :
          mcp_store._ref_to_patient_id[ref] \in PatientIds(mcp_store)
    /\ \A p \in DOMAIN mcp_store._patient_index :
          \A type \in DOMAIN mcp_store._patient_index[p] :
              /\ type # <<"Patient">>
              /\ \A i \in DOMAIN mcp_store._patient_index[p][type] :
                    Get(mcp_store._patient_index[p][type][i], "resourceType", <<>>) = type

\* A load has failed at a patient without id after registering p2, another
\* load has indexed resources, and p2 has its empty index
C27_Witness ==
    /\ \E k \in DOMAIN loaded : loaded[k].doc = BundleNoId /\ loaded[k].raised
    /\ \E k \in DOMAIN loaded : loaded[k].doc = BundleJoao /\ ~loaded[k].raised
    /\ <<"p2">> \in PatientIds(mcp_store)
    /\ Get(mcp_store._patient_index, <<"p2">>, None) = <<>>
    /\ Len(get_resources(mcp_store, <<"p1">>, <<"Condition">>)) = 1

\* The reference a resource names its subject by, empty when it has none
ReferenceOf(resource) == Get(Get(resource, "subject", <<>>), "reference", <<>>)

\* C28: a non-patient resource of a loaded bundle is in the index of the
\* patient its subject names when that patient was registered by a bundle
\* loaded earlier or by its own bundle; when the patient had not been
\* registered by then, the resource is in no index, also after a later load
\* has registered the patient.
C28_NoRetroactiveIndex ==
    \A k \in DOMAIN loaded :
        ~loaded[k].raised =>
            \A i \in DOMAIN EntriesOf(loaded[k].doc) :
                LET e == EntriesOf(loaded[k].doc)[i]
                    r == e.resource
                    named == NamedBy(ReferenceOf(r), k)
                IN (~IsPatientEntry(e) /\ ReferenceOf(r) # <<>>) =>
                      /\ named \in KnownAfter(k) => IndexedSomewhere(r, named)
                      /\ named \notin KnownAfter(k) =>
                            \A q \in DOMAIN mcp_store._patient_index :
                                ~IndexedSomewhere(r, q)

\* The bundle with an observation of p1 was loaded before the bundle that
\* registers p1: p1 is registered and has its condition, not the observation
\* it has when the two bundles are loaded the other way round
C28_Witness ==
    /\ Len(loaded) = 2
    /\ loaded[1].doc = BundleCross /\ ~loaded[1].raised
    /\ loaded[2].doc = BundleJoao /\ ~loaded[2].raised
    /\ <<"p1">> \in PatientIds(mcp_store)
    /\ get_resources(mcp_store, <<"p1">>, <<"Observation">>) = <<>>
    /\ Len(get_resources(mcp_store, <<"p1">>, <<"Condition">>)) = 1
    /\ Len(get_resources(mcp_store, <<"p0">>, <<"Observation">>)) = 1

----------------------------------------------------------------------------
(* The two record stores of the workflow *)

PatientNotFound == "Paciente nao encontrado: "

\* C29: in the workflow, with both stores loaded lazily from the one
\* directory, a non-empty patient_id chosen by parse_note is registered in the
\* store of nodes.py; once fetch_patient_data has returned, it is registered
\* in the store behind the tools too and patient_data has no text of a
\* patient not found; and two stores that both list patients list the same.
C29_StoresAgree ==
    /\ Truthy(Get(state, "patient_id", <<>>)) =>
          state.patient_id \in PatientIds(nodes_store)
    /\ "patient_data" \in DOMAIN state =>
          /\ \A i \in DOMAIN state.patient_data : state.patient_data[i] # PatientNotFound
          /\ Truthy(Get(state, "patient_id", <<>>)) =>
                state.patient_id \in PatientIds(mcp_store)
    /\ (NonEmpty(list_patients(nodes_store)) /\ NonEmpty(list_patients(mcp_store))) =>
          list_patients(nodes_store) = list_patients(mcp_store)

\* A run has ended with the patient p1 matched in one store and found by the
\* tools in the other, both stores holding the two patients of the directory
C29_Witness ==
    /\ pc = "END"
    /\ directory = <<BundleAna, BundleJoao>>
    /\ state.patient_id = <<"p1">>
    /\ tool_calls # <<>>
    /\ "patient_data" \in DOMAIN state
    /\ Len(list_patients(nodes_store)) = 2
    /\ Len(list_patients(mcp_store)) = 2
    /\ NonEmpty(get_patient(mcp_store, <<"p1">>))

----------------------------------------------------------------------------
(* The retriever calls of retrieve_guidelines *)

\* C30: a call of retrieve_guidelines that returns has called the retriever
\* once for each query of the list, in the order of the list, each time with
\* top_k 3 and getting at most 3 results; with k queries the guidelines block
\* has at most min(5, 3k) entries.  A call that raises has made these calls
\* for the queries up to the failing one.
C30_OneCallPerQuery ==
    (executed = <<"retrieve_guidelines">>) =>
        LET queries == Get(state, "retrieval_queries", <<>>) IN
        /\ Len(retriever_calls) <= Len(queries)
        /\ \A i \in DOMAIN retriever_calls :
              /\ retriever_calls[i].query = queries[i]
              /\ retriever_calls[i].top_k = 3
              /\ "results" \in DOMAIN retriever_calls[i] =>
                    Len(retriever_calls[i].results) <= 3
        /\ pc = "returned" =>
              /\ Len(retriever_calls) = Len(queries)
              /\ Len(BlockEntries(last_update.guidelines)) <= Min(5, 3 * Len(queries))

\* Two queries with three results each, six different texts, and a block of
\* five entries
C30_Witness ==
    /\ executed = <<"retrieve_guidelines">>
    /\ pc = "returned"
    /\ Len(retriever_calls) = 2
    /\ retriever_calls[1].query # retriever_calls[2].query
    /\ Len(retriever_calls[1].results) = 3
    /\ Len(retriever_calls[2].results) = 3
    /\ Len(all_results) = 6
    /\ Len(BlockEntries(last_update.guidelines)) = 5

----------------------------------------------------------------------------
(* The lazy load under concurrency *)

\* The threads whose check found no patient
Loaders == {t \in Threads : state[t].pc # "check" /\ state[t].empty}

\* Every two threads made their accesses one after the other
Sequential ==
    \A t, u \in Threads :
        t # u => t \in state[u].finished_before \/ u \in state[t].finished_before

\* C23: a thread loads the directory only if the store listed no patient when
\* the thread checked, and the check and the load are separate steps: once
\* all threads are through, every resource in an index is held there once for
\* each thread that loaded, so twice when two threads checked before either
\* had registered a patient, and once when the threads ran one after the other.
C23_CheckThenLoadRace ==
    /\ \A t \in Loaders : state[t].patients_seen = 0
    /\ (\A t \in Threads : state[t].pc \in Finished) =>
          \A p \in DOMAIN mcp_store._patient_index :
              \A type \in DOMAIN mcp_store._patient_index[p] :
                  \A i \in DOMAIN mcp_store._patient_index[p][type] :
                      /\ TimesIndexed(mcp_store._patient_index[p][type][i], p, type)
                            = Cardinality(Loaders)
                      /\ Sequential => Cardinality(Loaders) = 1

\* Both threads saw an empty store, both loaded, and the one condition of the
\* patient is in the index twice
C23_Witness ==
    /\ \A t \in Threads : state[t].pc = "done" /\ state[t].empty
    /\ Cardinality(Threads) >= 2
    /\ directory = <<BundleJoao>>
    /\ Len(get_resources(mcp_store, <<"p1">>, <<"Condition">>)) = Cardinality(Threads)
    /\ Len(list_patients(mcp_store)) = 1

====
